---- MODULE Spec2Model ----
(***************************************************************************)
(* Verification model of the solana-multi-tier-oracle program:             *)
(*   - HistoricalChunk ring buffer (state/historical_chunk.rs)             *)
(*   - GovernanceState permission checks (state/governance_state.rs)       *)
(*   - update_price / register_price_feed / initialize_oracle instructions *)
(*                                                                         *)
(* Three specifications share the module:                                  *)
(*   SpecChunk : one chunk driven by arbitrary push sequences              *)
(*   SpecGov   : the governance account, initialised by initialize_oracle  *)
(*               and driven by its mutators and permission checks          *)
(*   Spec      : the oracle (state, governance, three chunks, clock)       *)
(*               driven by the three instructions                          *)
(***************************************************************************)
EXTENDS Integers, Naturals, Sequences, FiniteSets, TLC

VARIABLES
    chunk,             \* SpecChunk: the HistoricalChunk under test
    pushed,            \* SpecChunk: history of the points pushed so far
    oracle_state,      \* the OracleState account
    governance_state,  \* the GovernanceState account of the oracle
    chunks,            \* historical_chunk_0 .. historical_chunk_2
    clock,             \* Clock::get()?.unix_timestamp
    call,              \* the last call (instruction or method) and its result
    stored             \* the most recent samples pushed by update_price, oldest first

vars == <<chunk, pushed, oracle_state, governance_state,
          chunks, clock, call, stored>>

chunkVars == <<chunk, pushed>>
oracleVars == <<oracle_state, governance_state, chunks, clock, call, stored>>

(***************************************************************************)
(* Bounds of the model                                                     *)
(***************************************************************************)
\* log2 of the chunk capacity (the program uses 7, i.e. 128 slots)
LogBufferSize == 1
\* pushes explored beyond one full buffer in SpecChunk
PushExtra == 3
\* number of non-default public keys
NumKeys == 2
\* last clock value explored in Spec
MaxTime == 10

(***************************************************************************)
(* Program constants                                                       *)
(***************************************************************************)
BUFFER_SIZE == 2 ^ LogBufferSize
MAX_MULTISIG_MEMBERS == 2
MAX_PRICE_FEEDS == 2
U16 == 65536

\* Pubkey::default() is key 0
DefaultPubkey == 0
Pubkeys == 0 .. NumKeys

(***************************************************************************)
(* Integer helpers                                                         *)
(***************************************************************************)
RECURSIVE BitAnd(_, _)
BitAnd(a, b) ==
    IF a = 0 \/ b = 0 THEN 0
    ELSE (a % 2) * (b % 2) + 2 * BitAnd(a \div 2, b \div 2)

\* the last n elements of a sequence
LastN(seq, n) ==
    IF Len(seq) <= n THEN seq ELSE SubSeq(seq, Len(seq) - n + 1, Len(seq))

Min(a, b) == IF a <= b THEN a ELSE b
Max(a, b) == IF a >= b THEN a ELSE b

(***************************************************************************)
(* PricePoint and HistoricalChunk                                          *)
(***************************************************************************)
PricePoint(price, conf, timestamp, volume) ==
    [price |-> price, conf |-> conf, timestamp |-> timestamp, volume |-> volume]

PricePointDefault == PricePoint(0, 0, 0, 0)

\* a zero-initialised chunk account (load_init + initialize_oracle)
EmptyChunk ==
    [head |-> 0, tail |-> 0, count |-> 0,
     price_points |-> [i \in 0 .. BUFFER_SIZE - 1 |-> PricePointDefault]]

\* a variant of push that never moves tail
push_keeps_tail(c, point) ==
    [c EXCEPT !.price_points[c.head] = point,
              !.head = BitAnd((c.head + 1) % U16, BUFFER_SIZE - 1),
              !.count = IF c.count < BUFFER_SIZE THEN c.count + 1 ELSE c.count]

\* a variant of push that advances head before writing the slot
push_write_after_advance(c, point) ==
    LET h == BitAnd((c.head + 1) % U16, BUFFER_SIZE - 1)
    IN [c EXCEPT !.price_points[h] = point,
                 !.head = h,
                 !.count = IF c.count < BUFFER_SIZE THEN c.count + 1 ELSE c.count,
                 !.tail = IF c.count < BUFFER_SIZE THEN c.tail
                          ELSE BitAnd((c.tail + 1) % U16, BUFFER_SIZE - 1)]

\* a variant of push that starts evicting one push too early
push_early_evict(c, point) ==
    [c EXCEPT !.price_points[c.head] = point,
              !.head = BitAnd((c.head + 1) % U16, BUFFER_SIZE - 1),
              !.count = IF c.count < BUFFER_SIZE THEN (c.count + 1) % U16 ELSE c.count,
              !.tail = IF c.count + 1 < BUFFER_SIZE THEN c.tail
                       ELSE BitAnd((c.tail + 1) % U16, BUFFER_SIZE - 1)]

\* HistoricalChunk::push
push(c, point) ==
    [c EXCEPT !.price_points[c.head] = point,
              !.head = BitAnd((c.head + 1) % U16, BUFFER_SIZE - 1),
              !.count = IF c.count < BUFFER_SIZE THEN (c.count + 1) % U16 ELSE c.count,
              !.tail = IF c.count < BUFFER_SIZE THEN c.tail
                       ELSE BitAnd((c.tail + 1) % U16, BUFFER_SIZE - 1)]

\* a variant of latest that forgets the wraparound of head
latest_no_wrap(c) ==
    IF c.count = 0 THEN <<>>
    ELSE <<c.price_points[IF c.head = 0 THEN 0 ELSE c.head - 1]>>

\* HistoricalChunk::latest; None is <<>>, Some(p) is <<p>>
latest(c) ==
    IF c.count = 0 THEN <<>>
    ELSE <<c.price_points[IF c.head = 0 THEN BUFFER_SIZE - 1 ELSE c.head - 1]>>

\* collect_fifo_view: walk from tail for count steps
collect_fifo_view(c) ==
    [k \in 1 .. c.count |->
        c.price_points[BitAnd(c.tail + (k - 1), BUFFER_SIZE - 1)]]

(***************************************************************************)
(* Permissions: a u64 bitmask, modelled as the set of its set bit          *)
(* positions (0 .. 63)                                                     *)
(***************************************************************************)
UPDATE_PRICE == {0}
TRIGGER_CIRCUIT_BREAKER == {1}
MODIFY_CONFIG == {2}
VIEW_METRICS == {3}
EMERGENCY_HALT == {4}
ADD_FEED == {5}
REMOVE_FEED == {6}

ADMIN_ALL ==
    UPDATE_PRICE \cup TRIGGER_CIRCUIT_BREAKER \cup MODIFY_CONFIG
        \cup EMERGENCY_HALT \cup ADD_FEED \cup REMOVE_FEED

OPERATOR_ALL == UPDATE_PRICE \cup VIEW_METRICS

VALID_MASK ==
    UPDATE_PRICE \cup TRIGGER_CIRCUIT_BREAKER \cup MODIFY_CONFIG
        \cup VIEW_METRICS \cup EMERGENCY_HALT \cup ADD_FEED \cup REMOVE_FEED

\* Permissions::has: (self.0 & permission.0) != 0
Permissions_has(self, permission) == (self \cap permission) # {}

\* Permissions::has_all: (self.0 & permissions.0) == permissions.0
Permissions_has_all(self, permissions) == (self \cap permissions) = permissions

\* Permissions::grant: self.0 |= permission.0
Permissions_grant(self, permission) == self \cup permission

\* Permissions::revoke: self.0 &= !permission.0
Permissions_revoke(self, permission) == self \ permission

\* Permissions::toggle: self.0 ^= permission.0
Permissions_toggle(self, permission) ==
    (self \ permission) \cup (permission \ self)

\* Permissions::is_admin
Permissions_is_admin(self) == Permissions_has_all(self, ADMIN_ALL)

(***************************************************************************)
(* GovernanceState                                                         *)
(***************************************************************************)
MemberSlots == 0 .. MAX_MULTISIG_MEMBERS - 1

\* the zeroed governance account before initialize_oracle
GovernanceZeroed ==
    [multisig_members |-> [i \in MemberSlots |-> DefaultPubkey],
     member_permissions |-> [i \in MemberSlots |-> {}],
     active_member_count |-> 0]

SetMin(S) == CHOOSE x \in S : \A y \in S : x <= y

\* a variant of find_member that scans every slot, active or not
find_member_all_slots(g, member_key) ==
    LET hits == {i \in MemberSlots : g.multisig_members[i] = member_key}
    IN IF hits = {} THEN <<>>
       ELSE <<SetMin(hits), g.member_permissions[SetMin(hits)]>>

\* GovernanceState::find_member: the first slot i, in array order, with
\* member == member_key && i < active_member_count; None is <<>>
find_member(g, member_key) ==
    LET hits == {i \in MemberSlots :
                    g.multisig_members[i] = member_key
                    /\ i < g.active_member_count}
    IN IF hits = {} THEN <<>>
       ELSE <<SetMin(hits), g.member_permissions[SetMin(hits)]>>

\* a variant of check_member_permission with the two errors exchanged
check_member_permission_swapped(g, member_key, required_permission) ==
    LET found == find_member(g, member_key)
    IN IF found # <<>>
       THEN IF Permissions_has(found[2], required_permission)
            THEN "Ok" ELSE "UnauthorizedCaller"
       ELSE "InsufficientPermissions"

\* a variant that lets every active member pass whatever it holds
check_member_permission_member_only(g, member_key, required_permission) ==
    IF find_member(g, member_key) # <<>> THEN "Ok" ELSE "UnauthorizedCaller"

\* GovernanceState::check_member_permission
check_member_permission(g, member_key, required_permission) ==
    LET found == find_member(g, member_key)
    IN IF found # <<>>
       THEN IF Permissions_has(found[2], required_permission)
            THEN "Ok" ELSE "InsufficientPermissions"
       ELSE "UnauthorizedCaller"

\* GovernanceState::set_active_member_count
set_active_member_count(g, count) ==
    IF ~(count <= MAX_MULTISIG_MEMBERS)
    THEN [result |-> "TooManyActiveMembers", state |-> g]
    ELSE [result |-> "Ok", state |-> [g EXCEPT !.active_member_count = count]]

\* a variant of the grant without the active-index check
grant_member_permission_unchecked(g, member_index, permission) ==
    [result |-> "Ok",
     state |-> [g EXCEPT !.member_permissions[member_index] =
                             Permissions_grant(@, permission)]]

\* GovernanceState::grant_member_permission
grant_member_permission(g, member_index, permission) ==
    IF ~(member_index < g.active_member_count)
    THEN [result |-> "UnauthorizedCaller", state |-> g]
    ELSE [result |-> "Ok",
          state |-> [g EXCEPT !.member_permissions[member_index] =
                                  Permissions_grant(@, permission)]]

\* GovernanceState::revoke_member_permission
revoke_member_permission(g, member_index, permission) ==
    IF ~(member_index < g.active_member_count)
    THEN [result |-> "UnauthorizedCaller", state |-> g]
    ELSE [result |-> "Ok",
          state |-> [g EXCEPT !.member_permissions[member_index] =
                                  Permissions_revoke(@, permission)]]

(***************************************************************************)
(* OracleState                                                             *)
(***************************************************************************)
MAX_TWAP_WINDOW == 345600
MAX_CONFIDENCE_THRESHOLD == 10000
MAX_MANIPULATION_THRESHOLD == 10000
MAX_QUORUM_THRESHOLD == 10000
OBSERVATION_UPDATE_DURATION == 15
\* minimum spacing of two history samples, in seconds
MIN_HISTORICAL_INTERVAL == 2

\* StateFlags: a u32 bitmask, modelled as the set of its set bit positions
CIRCUIT_BREAKER_ENABLED == {0}
EMERGENCY_MODE == {1}

\* StateFlags::has
StateFlags_has(self, flag) == (self \cap flag) # {}

\* StateFlags::is_circuit_breaker_enabled
is_circuit_breaker_enabled(flags) == StateFlags_has(flags, CIRCUIT_BREAKER_ENABLED)

\* StateFlags::is_emergency_mode
is_emergency_mode(flags) == StateFlags_has(flags, EMERGENCY_MODE)

FeedSlots == 0 .. MAX_PRICE_FEEDS - 1

\* SourceType discriminants
SourceType_DEX == 0
FeedFlags_ACTIVE == {0}

\* a zeroed PriceFeed slot
PriceFeedDefault ==
    [source_address |-> DefaultPubkey, last_price |-> 0, volume_24h |-> 0,
     liquidity_depth |-> 0, last_conf |-> 0, last_update |-> 0,
     weight |-> 0, lp_concentration |-> 0, manipulation_score |-> 0,
     source_type |-> 0, flags |-> {}]

PriceDataDefault == [price |-> 0, conf |-> 0, timestamp |-> 0, expo |-> 0]

\* the zeroed oracle account before initialize_oracle; `initialized' stands
\* for the account discriminator written by Anchor's init
OracleZeroed ==
    [initialized |-> FALSE, authority |-> DefaultPubkey, flags |-> {},
     last_update |-> 0, current_price |-> PriceDataDefault,
     price_feeds |-> [i \in FeedSlots |-> PriceFeedDefault],
     twap_window |-> 0, current_chunk_index |-> 0,
     confidence_threshold |-> 0, manipulation_threshold |-> 0,
     active_feed_count |-> 0, emergency_admin |-> DefaultPubkey]

\* OracleState::active_feeds: the slots below active_feed_count
active_feeds(o) == {i \in FeedSlots : i < o.active_feed_count}

(***************************************************************************)
(* initialize_oracle                                                       *)
(***************************************************************************)
\* validate_initial_members_and_authority_admin, from slot i on;
\* admin_authority is the flag accumulated so far
RECURSIVE validate_members_from(_, _, _, _, _, _)
validate_members_from(i, admin_authority, initial_members, member_count, authority, member_permissions) ==
    IF i >= member_count
    THEN IF admin_authority THEN "Ok" ELSE "AuthorityNotAdminMember"
    ELSE IF initial_members[i] = DefaultPubkey THEN "InvalidMemberKey"
    ELSE IF initial_members[i] = authority
            /\ ~Permissions_is_admin(member_permissions[i])
         THEN "AuthorityNotAdminMember"
    ELSE IF \E j \in (i + 1) .. (member_count - 1) :
                initial_members[i] = initial_members[j]
         THEN "DuplicateMember"
    ELSE validate_members_from(i + 1,
             admin_authority \/ initial_members[i] = authority,
             initial_members, member_count, authority, member_permissions)

\* a variant of the validation that only looks for the authority's key
validate_initial_members_any_authority_slot(initial_members, member_count, authority, member_permissions) ==
    IF \E i \in 0 .. (member_count - 1) : initial_members[i] = authority
    THEN "Ok" ELSE "AuthorityNotAdminMember"

\* validate_initial_members_and_authority_admin
validate_initial_members_and_authority_admin(initial_members, member_count, authority, member_permissions) ==
    validate_members_from(0, FALSE, initial_members, member_count,
                          authority, member_permissions)

\* the validation phases of initialize_oracle, first failure wins
initialize_oracle_validate(authority, config) ==
    LET g == config.governance_config
    IN IF ~config.asset_ok THEN "InvalidAssetId"
       ELSE IF ~(config.twap_window > 0 /\ config.twap_window <= MAX_TWAP_WINDOW)
            THEN "InvalidTWAPWindow"
       ELSE IF ~(config.confidence_threshold <= MAX_CONFIDENCE_THRESHOLD)
            THEN "InvalidConfidenceThreshold"
       ELSE IF ~(config.manipulation_threshold > 0
                 /\ config.manipulation_threshold <= MAX_MANIPULATION_THRESHOLD)
            THEN "InvalidManipulationThreshold"
       ELSE IF ~(config.emergency_admin # DefaultPubkey)
            THEN "InvalidEmergencyAdmin"
       ELSE IF ~(g.member_count > 0 /\ g.member_count <= MAX_MULTISIG_MEMBERS)
            THEN "InvalidMemberCount"
       ELSE IF ~(g.multisig_threshold > 0 /\ g.multisig_threshold <= g.member_count)
            THEN "InvalidMultisigThreshold"
       ELSE IF ~(g.voting_period > 0 /\ g.execution_delay >= 0)
            THEN "InvalidTimingParameters"
       ELSE IF ~(g.quorum_threshold > 0 /\ g.quorum_threshold <= MAX_QUORUM_THRESHOLD)
            THEN "InvalidQuorumThreshold"
       ELSE IF ~(g.proposal_threshold > 0) THEN "InvalidProposalThreshold"
       ELSE validate_initial_members_and_authority_admin(
                g.initial_members, g.member_count, authority,
                g.member_permissions)

\* the oracle account written by a successful initialize_oracle
initialize_oracle_state(authority, config) ==
    [OracleZeroed EXCEPT
        !.initialized = TRUE,
        !.authority = authority,
        !.flags = IF config.enable_circuit_breaker
                  THEN CIRCUIT_BREAKER_ENABLED ELSE {},
        !.twap_window = config.twap_window,
        !.current_chunk_index = 0,
        !.confidence_threshold = config.confidence_threshold,
        !.manipulation_threshold = config.manipulation_threshold,
        !.emergency_admin = config.emergency_admin,
        !.last_update = 0]

\* the governance account written by a successful initialize_oracle
initialize_governance_state(config) ==
    LET g == config.governance_config
    IN [multisig_members |->
            [i \in MemberSlots |-> IF i < g.member_count
                                   THEN g.initial_members[i] ELSE DefaultPubkey],
        member_permissions |->
            [i \in MemberSlots |-> IF i < g.member_count
                                   THEN g.member_permissions[i] ELSE {}],
        active_member_count |-> g.member_count]

\* initialize_oracle: the accounts are created by the instruction (Anchor
\* init), so it runs once; a failed validation leaves nothing behind
InitializeOracle(authority, config) ==
    /\ ~oracle_state.initialized
    /\ LET result == initialize_oracle_validate(authority, config)
       IN /\ call' = [op |-> "initialize_oracle", authority |-> authority,
                      result |-> result]
          /\ IF result = "Ok"
             THEN /\ oracle_state' = initialize_oracle_state(authority, config)
                  /\ governance_state' = initialize_governance_state(config)
                  /\ chunks' = [i \in 0 .. 2 |-> EmptyChunk]
             ELSE UNCHANGED <<oracle_state, governance_state, chunks>>
    /\ UNCHANGED <<chunk, pushed, clock, stored>>

(***************************************************************************)
(* Streaming cross-chunk TWAP aggregator (update_price.rs)                 *)
(***************************************************************************)
\* a variant of tail_index that takes head for the oldest slot
tail_index_ignores_count(c) == c.head % BUFFER_SIZE

\* tail_index: the oldest slot derived from head and count
tail_index(c) == (c.head + BUFFER_SIZE - c.count) % BUFFER_SIZE

\* step_forward
step_forward(index) == (index + 1) % BUFFER_SIZE

\* the points a chunk walk visits: count steps from tail_index
walk_points(c) ==
    [k \in 1 .. c.count |-> c.price_points[(tail_index(c) + (k - 1)) % BUFFER_SIZE]]

\* p.price > 0 && p.timestamp > 0
valid_point(p) == p.price > 0 /\ p.timestamp > 0

\* a variant of find_oldest_timestamp that never finds a sample
find_oldest_timestamp_none(ordered) == <<>>

\* find_oldest_timestamp: per chunk the first valid point of the walk,
\* then the minimum over the chunks; None is <<>>
find_oldest_timestamp(ordered) ==
    LET firstValid(c) ==
            LET ks == {k \in 1 .. c.count : valid_point(walk_points(c)[k])}
            IN IF ks = {} THEN {} ELSE {walk_points(c)[SetMin(ks)].timestamp}
        all == UNION {firstValid(ordered[i]) : i \in 1 .. Len(ordered)}
    IN IF all = {} THEN <<>> ELSE <<SetMin(all)>>

\* accumulator of the aggregation loop
AccInit ==
    [weighted_price_sum |-> 0, total_weight |-> 0, conf_time_sum |-> 0,
     time_only_weight |-> 0, oldest_timestamp |-> <<>>,
     previous_point |-> <<>>, data_points_used |-> 0]

\* a variant of add_segment whose total weight counts the time only
add_segment_time_weight(acc, prev_point, dt) ==
    LET conf_sample == Min(prev_point.conf, 10000)
        combined_weight == dt * Max(conf_sample, 1)
    IN [acc EXCEPT
            !.weighted_price_sum = @ + prev_point.price * combined_weight,
            !.conf_time_sum = @ + conf_sample * dt,
            !.total_weight = @ + dt,
            !.time_only_weight = @ + dt]

\* one weighted segment [prev.timestamp, prev.timestamp + dt) added to the
\* sums (the model's values stay far below the i128/u128 limits, so the
\* checked additions succeed)
add_segment(acc, prev_point, dt) ==
    LET conf_sample == Min(prev_point.conf, 10000)
        conf_weight == Max(conf_sample, 1)
        combined_weight == dt * conf_weight
    IN [acc EXCEPT
            !.weighted_price_sum = @ + prev_point.price * combined_weight,
            !.conf_time_sum = @ + conf_sample * dt,
            !.total_weight = @ + combined_weight,
            !.time_only_weight = @ + dt]

\* a variant of the loop body that adds the segment whatever its length
visit_point_no_skip(acc, point, actual_cutoff_time) ==
    IF point.timestamp < actual_cutoff_time THEN acc
    ELSE IF ~valid_point(point) THEN acc
    ELSE IF acc.previous_point = <<>>
         THEN [acc EXCEPT !.previous_point = <<point>>,
                          !.oldest_timestamp = <<point.timestamp>>,
                          !.data_points_used = @ + 1]
    ELSE [add_segment(acc, acc.previous_point[1],
                      point.timestamp - acc.previous_point[1].timestamp)
            EXCEPT !.previous_point = <<point>>,
                   !.data_points_used = @ + 1]

\* the body of the visit_chunk loop for one point
visit_point(acc, point, actual_cutoff_time) ==
    IF point.timestamp < actual_cutoff_time THEN acc
    ELSE IF ~valid_point(point) THEN acc
    ELSE
      LET a1 == IF acc.previous_point = <<>> /\ point.timestamp > actual_cutoff_time
                THEN [acc EXCEPT
                        !.previous_point =
                            <<PricePoint(point.price, point.conf,
                                         actual_cutoff_time, 0)>>,
                        !.oldest_timestamp = <<actual_cutoff_time>>]
                ELSE acc
          a2 == IF a1.oldest_timestamp = <<>>
                THEN [a1 EXCEPT !.oldest_timestamp = <<point.timestamp>>]
                ELSE a1
      IN IF a2.previous_point # <<>>
            /\ point.timestamp - a2.previous_point[1].timestamp <= 0
         THEN a2
         ELSE LET a3 == IF a2.previous_point # <<>>
                        THEN add_segment(a2, a2.previous_point[1],
                                 point.timestamp - a2.previous_point[1].timestamp)
                        ELSE a2
              IN [a3 EXCEPT !.previous_point = <<point>>,
                            !.data_points_used = @ + 1]

\* the visit loop over a sequence of points, oldest first
RECURSIVE visit_points(_, _, _)
visit_points(acc, points, actual_cutoff_time) ==
    IF points = <<>> THEN acc
    ELSE visit_points(visit_point(acc, Head(points), actual_cutoff_time),
                      Tail(points), actual_cutoff_time)

\* the chunks are visited in order, sharing one accumulator
RECURSIVE visit_chunks(_, _, _)
visit_chunks(acc, ordered, actual_cutoff_time) ==
    IF ordered = <<>> THEN acc
    ELSE visit_chunks(visit_points(acc, walk_points(Head(ordered)),
                                   actual_cutoff_time),
                      Tail(ordered), actual_cutoff_time)

TwapErr(e) == [ok |-> FALSE, err |-> e]

\* the cutoff of the aggregation: the requested cutoff, moved forward to
\* the oldest available sample when that sample is newer
actual_cutoff_time(ordered, window_seconds, current_time) ==
    LET requested_cutoff_time == current_time - window_seconds
        oldest_available == find_oldest_timestamp(ordered)
    IN IF oldest_available # <<>> /\ oldest_available[1] > requested_cutoff_time
       THEN oldest_available[1] ELSE requested_cutoff_time

\* the sums after the closing segment [last_point.timestamp, current_time)
twap_final_sums(acc, current_time) ==
    LET last_point == acc.previous_point[1]
        dt == current_time - last_point.timestamp
    IN IF dt > 0 THEN add_segment(acc, last_point, dt) ELSE acc

\* the two integer divisions and the result record; a division by zero
\* panics, which aborts the call with no error code of the program
twap_divide(fin, acc, current_time) ==
    IF fin.total_weight = 0 \/ fin.time_only_weight = 0
    THEN TwapErr("DivideByZeroPanic")
    ELSE [ok |-> TRUE,
          twap_price |-> fin.weighted_price_sum \div fin.total_weight,
          twap_confidence |->
              Min(fin.conf_time_sum \div fin.time_only_weight, 10000),
          data_points_used |-> fin.data_points_used,
          covered_time_span |-> Max(current_time - acc.oldest_timestamp[1], 0),
          oldest_timestamp |-> acc.oldest_timestamp[1],
          newest_timestamp |-> acc.previous_point[1].timestamp]

\* a variant of the aggregator without the early return on a cutoff at or
\* after current_time and without the zero-weight guards
stream_twap_from_chunks_unguarded(ordered, window_seconds, current_time) ==
    LET cutoff == actual_cutoff_time(ordered, window_seconds, current_time)
    IN \* the accumulator is bound once
       LET finish(acc) ==
               IF acc.data_points_used = 0 THEN TwapErr("NotEnoughHistory")
               ELSE IF acc.oldest_timestamp = <<>> \/ acc.previous_point = <<>>
                    THEN TwapErr("NotEnoughHistory")
               ELSE twap_divide(twap_final_sums(acc, current_time), acc,
                                current_time)
       IN finish(visit_chunks(AccInit, ordered, cutoff))

\* stream_twap_from_chunks
stream_twap_from_chunks(ordered, window_seconds, current_time) ==
    LET oldest_available == find_oldest_timestamp(ordered)
        cutoff == actual_cutoff_time(ordered, window_seconds, current_time)
        guarded(fin, acc) ==
            IF ~(fin.total_weight > 0) THEN TwapErr("NotEnoughHistory")
            ELSE IF ~(fin.time_only_weight > 0) THEN TwapErr("NotEnoughHistory")
            ELSE twap_divide(fin, acc, current_time)
        finish(acc) ==
            IF acc.data_points_used = 0 THEN TwapErr("NotEnoughHistory")
            ELSE IF acc.oldest_timestamp = <<>> \/ acc.previous_point = <<>>
                 THEN TwapErr("NotEnoughHistory")
            ELSE guarded(twap_final_sums(acc, current_time), acc)
    IN IF oldest_available # <<>> /\ cutoff >= current_time
       THEN TwapErr("NotEnoughHistory")
       ELSE finish(visit_chunks(AccInit, ordered, cutoff))

\* order_chunks: oldest -> newest for the given rotation index
order_chunks(c0, c1, c2, current_idx) ==
    IF current_idx % 3 = 0 THEN <<c1, c2, c0>>
    ELSE IF current_idx % 3 = 1 THEN <<c2, c0, c1>>
    ELSE <<c0, c1, c2>>

\* a variant of determine_active_chunk that never rotates
determine_active_chunk_stay(cs, current_chunk_index) ==
    <<current_chunk_index, FALSE>>

\* determine_active_chunk: <<index to write, needs_rotation>>
determine_active_chunk(cs, current_chunk_index) ==
    LET active_chunk == cs[current_chunk_index % 3]
        is_full == active_chunk.count >= BUFFER_SIZE
    IN IF is_full THEN <<(current_chunk_index + 1) % 3, TRUE>>
       ELSE <<current_chunk_index, FALSE>>

(***************************************************************************)
(* update_price                                                            *)
(***************************************************************************)
\* a variant of the error return that has already stamped last_update
update_price_abort_dirty(o, cs, current_time, e) ==
    [result |-> e, oracle_state |-> [o EXCEPT !.last_update = current_time],
     chunks |-> cs, new_point |-> <<>>]

\* an error return of update_price: nothing has been written
update_price_abort(o, cs, current_time, e) ==
    [result |-> e, oracle_state |-> o, chunks |-> cs, new_point |-> <<>>]

\* a variant of the interval gate that always lets the sample through
should_push_always(active_chunk, current_time) == TRUE

\* should_push: the minimum-interval gate on the active chunk's latest point
should_push(active_chunk, current_time) ==
    IF latest(active_chunk) # <<>>
    THEN current_time - latest(active_chunk)[1].timestamp >= MIN_HISTORICAL_INTERVAL
    ELSE TRUE

\* the part of update_price after every validation has passed:
\* feed record, aggregate price, rotation, conditional push
update_price_commit(o, cs, current_time, feed_index, twap_result, fetched) ==
    LET o1 == [o EXCEPT
                !.price_feeds[feed_index] =
                    [@ EXCEPT !.last_price = twap_result.twap_price,
                              !.last_update = current_time,
                              !.last_conf = twap_result.twap_confidence,
                              !.volume_24h = 0,
                              !.liquidity_depth = fetched.liquidity_depth,
                              !.lp_concentration = 0,
                              !.manipulation_score =
                                  Min(fetched.manipulation_score, 10000),
                              !.source_type = SourceType_DEX,
                              !.flags = @ \cup FeedFlags_ACTIVE],
                !.current_price =
                    [price |-> twap_result.twap_price,
                     conf |-> twap_result.twap_confidence,
                     timestamp |-> current_time,
                     expo |-> o.current_price.expo],
                !.last_update = current_time]
        det == determine_active_chunk(cs, o1.current_chunk_index)
        active_chunk_index == det[1]
        needs_rotation == det[2]
        o2 == IF needs_rotation
              THEN [o1 EXCEPT !.current_chunk_index = active_chunk_index]
              ELSE o1
        slot == IF active_chunk_index = 0 THEN 0
                ELSE IF active_chunk_index = 1 THEN 1 ELSE 2
        new_point == PricePoint(twap_result.twap_price,
                                twap_result.twap_confidence, current_time, 0)
    IN IF should_push(cs[slot], current_time)
       THEN [result |-> "Ok", oracle_state |-> o2,
             chunks |-> [cs EXCEPT ![slot] = push(@, new_point)],
             new_point |-> <<new_point>>]
       ELSE [result |-> "Ok", oracle_state |-> o2, chunks |-> cs,
             new_point |-> <<>>]

\* a variant of the scan that settles on the last slot whatever it holds
find_feed_position_last_slot(o, pool) == <<MAX_PRICE_FEEDS - 1>>

\* price_feeds.iter().position(..): the first slot of the whole array
\* whose source address is the pool's key, as an Option
find_feed_position(o, pool) ==
    LET hits == {i \in FeedSlots : o.price_feeds[i].source_address = pool}
    IN IF hits = {} THEN <<>> ELSE <<SetMin(hits)>>

\* a variant of the TWAP step that runs the aggregator on a cold start too
update_price_twap_no_seed(cs, current_chunk_index, twap_window, current_time, fetched) ==
    stream_twap_from_chunks(
        order_chunks(cs[0], cs[1], cs[2], current_chunk_index),
        twap_window, current_time)

\* the TWAP step of update_price: on a cold start (all three chunks empty)
\* the result is seeded from the fetched observation, otherwise the
\* aggregator runs over the chunks in rotation order
update_price_twap(cs, current_chunk_index, twap_window, current_time, fetched) ==
    LET is_first_run == cs[0].count = 0 /\ cs[1].count = 0 /\ cs[2].count = 0
    IN IF is_first_run
       THEN [ok |-> TRUE,
             twap_price |-> fetched.price,
             twap_confidence |-> fetched.confidence,
             data_points_used |-> 1,
             covered_time_span |-> 0,
             oldest_timestamp |-> current_time,
             newest_timestamp |-> current_time]
       ELSE stream_twap_from_chunks(
                order_chunks(cs[0], cs[1], cs[2], current_chunk_index),
                twap_window, current_time)

\* update_price: g and authority are the governance account and the signer
\* of the instruction context; fetched is the outcome of
\* fetch_raydium_price_from_observations on the supplied pool accounts
update_price(o, g, cs, current_time, authority, pool, config, fetched) ==
    LET min_window == Max(MIN_HISTORICAL_INTERVAL, OBSERVATION_UPDATE_DURATION)
        abort(e) == update_price_abort(o, cs, current_time, e)
    IN IF is_emergency_mode(o.flags) THEN abort("CircuitBreakerActive")
       ELSE IF ~(o.twap_window <= MAX_TWAP_WINDOW) THEN abort("InvalidTWAPWindow")
       ELSE IF ~(o.twap_window >= min_window) THEN abort("InvalidTWAPWindow")
       ELSE IF ~(config.window_seconds >= min_window
                 /\ config.window_seconds <= MAX_TWAP_WINDOW)
            THEN abort("InvalidTWAPWindow")
       ELSE IF ~(o.twap_window % OBSERVATION_UPDATE_DURATION = 0)
            THEN abort("InvalidTWAPWindow")
       ELSE IF ~(config.window_seconds % OBSERVATION_UPDATE_DURATION = 0)
            THEN abort("InvalidTWAPWindow")
       ELSE IF ~fetched.ok THEN abort(fetched.err)
       ELSE IF ~(fetched.price > 0) THEN abort("InvalidPrice")
       ELSE
         LET twap_result ==
                 update_price_twap(cs, o.current_chunk_index, o.twap_window,
                                   current_time, fetched)
             feed_index == find_feed_position(o, pool)
         IN IF ~twap_result.ok THEN abort(twap_result.err)
            ELSE IF feed_index = <<>> THEN abort("InvalidSourceAddress")
            ELSE update_price_commit(o, cs, current_time, feed_index[1],
                                     twap_result, fetched)

UpdatePrice(authority, pool, config, fetched) ==
    /\ oracle_state.initialized
    /\ \E r \in {update_price(oracle_state, governance_state, chunks, clock,
                              authority, pool, config, fetched)} :
          /\ oracle_state' = r.oracle_state
          /\ chunks' = r.chunks
          /\ stored' = LastN(stored \o r.new_point, 3 * BUFFER_SIZE)
          /\ call' = [op |-> "update_price", authority |-> authority,
                      pool |-> pool, result |-> r.result]
    /\ UNCHANGED <<chunk, pushed, governance_state, clock>>

(***************************************************************************)
(* register_price_feed                                                     *)
(***************************************************************************)
\* feed weights are basis points of the aggregate
WEIGHT_PRECISION == 10000
MAX_FEED_WEIGHT == 10000
MIN_CLMM_LIQUIDITY == 1000
MIN_AMM_LIQUIDITY == 1000

SourceType_CEX == 1
SourceType_Oracle == 2
SourceType_Aggregator == 3

\* sum of a function's values over a finite index set
RECURSIVE SumOver(_, _)
SumOver(f, S) ==
    IF S = {} THEN 0
    ELSE LET x == CHOOSE y \in S : TRUE IN f[x] + SumOver(f, S \ {x})

\* a variant of the sum that forgets the feeds already registered
current_total_weight_forgets(o) == 0

\* ValidationContext::new: total weight of the active feeds
current_total_weight(o) ==
    SumOver([i \in FeedSlots |-> o.price_feeds[i].weight], active_feeds(o))

\* a variant of the validation without the feed-count ceiling
validate_oracle_constraints_no_ceiling(o) ==
    IF is_circuit_breaker_enabled(o.flags) THEN "CircuitBreakerActive"
    ELSE "Ok"

\* ValidationContext::validate_oracle_constraints
validate_oracle_constraints(o) ==
    IF o.active_feed_count >= MAX_PRICE_FEEDS THEN "TooManyFeeds"
    ELSE IF is_circuit_breaker_enabled(o.flags) THEN "CircuitBreakerActive"
    ELSE "Ok"

\* a variant of the scan that never finds a duplicate
has_duplicate_source_never(o, source_address) == FALSE

\* ValidationContext::has_duplicate_source
has_duplicate_source(o, source_address) ==
    \E i \in active_feeds(o) : o.price_feeds[i].source_address = source_address

\* create_price_feed
create_price_feed(feed_config, timestamp) ==
    [PriceFeedDefault EXCEPT
        !.source_address = feed_config.source_address,
        !.last_update = timestamp,
        !.weight = feed_config.weight,
        !.source_type = feed_config.source_type,
        !.flags = FeedFlags_ACTIVE]

\* a variant of the write that always stores the feed in the first slot
write_new_feed_first_slot(o, new_feed) ==
    [o EXCEPT !.price_feeds[0] = new_feed,
              !.active_feed_count = o.active_feed_count + 1]

\* the two writes of register_price_feed: the feed goes to the slot at
\* the current active_feed_count, then set_active_feed_count(count + 1)
write_new_feed(o, new_feed) ==
    [o EXCEPT !.price_feeds[o.active_feed_count] = new_feed,
              !.active_feed_count = o.active_feed_count + 1]

\* register_price_feed: the result and the oracle account afterwards.
\* strict mode is never enabled by any instruction (the governance account
\* is zero-initialised), so validate_source_program_ownership succeeds;
\* the weight sums stay far below the u32 range, so neither checked_add
\* fails; indexing price_feeds past its end panics
register_price_feed(o, g, timestamp_now, authority, feed_config) ==
    LET abort(e) == [result |-> e, oracle_state |-> o]
        constraints == validate_oracle_constraints(o)
        permission == check_member_permission(g, authority, ADD_FEED)
    IN IF constraints # "Ok" THEN abort(constraints)
       ELSE IF permission # "Ok" THEN abort(permission)
       ELSE IF has_duplicate_source(o, feed_config.source_address)
            THEN abort("DuplicateFeedSource")
       ELSE IF feed_config.weight = 0 \/ feed_config.weight > MAX_FEED_WEIGHT
            THEN abort("InvalidFeedWeight")
       ELSE IF current_total_weight(o) + feed_config.weight > WEIGHT_PRECISION
            THEN abort("ExcessiveTotalWeight")
       ELSE IF feed_config.source_type = SourceType_DEX
               /\ feed_config.min_liquidity < MIN_CLMM_LIQUIDITY
            THEN abort("InsufficientSourceLiquidity")
       ELSE IF feed_config.source_type = SourceType_Aggregator
               /\ feed_config.min_liquidity < MIN_AMM_LIQUIDITY
            THEN abort("InsufficientSourceLiquidity")
       ELSE IF ~(o.active_feed_count \in FeedSlots)
            THEN abort("IndexOutOfBoundsPanic")
       ELSE IF ~(o.active_feed_count + 1 <= MAX_PRICE_FEEDS)
            THEN abort("TooManyActiveFeeds")
       ELSE [result |-> "Ok",
             oracle_state |->
                 write_new_feed(o, create_price_feed(feed_config,
                                                     timestamp_now))]

RegisterPriceFeed(authority, feed_config) ==
    /\ oracle_state.initialized
    /\ \E r \in {register_price_feed(oracle_state, governance_state, clock,
                                     authority, feed_config)} :
          /\ oracle_state' = r.oracle_state
          /\ call' = [op |-> "register_price_feed", authority |-> authority,
                      feed_config |-> feed_config, result |-> r.result]
    /\ UNCHANGED <<chunk, pushed, governance_state, chunks, clock, stored>>

(***************************************************************************)
(* Environment: the cluster clock and the operator-controlled state flags  *)
(***************************************************************************)
\* StateFlags::set_to on the oracle's flags
StateFlags_set_to(flags, flag, on) ==
    IF on THEN flags \cup flag ELSE flags \ flag

SetFlag(flag, on) ==
    /\ oracle_state.initialized
    /\ oracle_state' = [oracle_state EXCEPT
                            !.flags = StateFlags_set_to(@, flag, on)]
    /\ call' = [op |-> "set_flag", flag |-> flag, on |-> on, result |-> "Ok"]
    /\ UNCHANGED <<chunk, pushed, governance_state, chunks, clock, stored>>

\* the unix timestamp never goes backwards
AdvanceClock(d) ==
    /\ clock + d <= MaxTime
    /\ clock' = clock + d
    /\ call' = [op |-> "clock", result |-> "Ok"]
    /\ UNCHANGED <<chunk, pushed, oracle_state, governance_state, chunks, stored>>

(***************************************************************************)
(* Governance method calls                                                 *)
(***************************************************************************)
SetActiveMemberCount(count) ==
    /\ oracle_state.initialized
    /\ LET r == set_active_member_count(governance_state, count)
       IN /\ governance_state' = r.state
          /\ call' = [op |-> "set_active_member_count", count |-> count,
                      result |-> r.result]
    /\ UNCHANGED <<chunk, pushed, oracle_state, chunks, clock, stored>>

GrantMemberPermission(member_index, permission) ==
    /\ oracle_state.initialized
    /\ LET r == grant_member_permission(governance_state, member_index, permission)
       IN /\ governance_state' = r.state
          /\ call' = [op |-> "grant_member_permission",
                      member_index |-> member_index,
                      permission |-> permission, result |-> r.result]
    /\ UNCHANGED <<chunk, pushed, oracle_state, chunks, clock, stored>>

RevokeMemberPermission(member_index, permission) ==
    /\ oracle_state.initialized
    /\ LET r == revoke_member_permission(governance_state, member_index, permission)
       IN /\ governance_state' = r.state
          /\ call' = [op |-> "revoke_member_permission",
                      member_index |-> member_index,
                      permission |-> permission, result |-> r.result]
    /\ UNCHANGED <<chunk, pushed, oracle_state, chunks, clock, stored>>

CheckMemberPermission(member_key, required_permission) ==
    /\ oracle_state.initialized
    /\ call' = [op |-> "check_member_permission", member_key |-> member_key,
                required_permission |-> required_permission,
                result |-> check_member_permission(governance_state, member_key,
                                                   required_permission)]
    /\ UNCHANGED <<chunk, pushed, oracle_state, governance_state, chunks,
                   clock, stored>>

(***************************************************************************)
(* Chunk method calls                                                      *)
(***************************************************************************)
MaxPushes == BUFFER_SIZE + PushExtra

Push(point) ==
    /\ Len(pushed) < MaxPushes
    /\ chunk' = push(chunk, point)
    /\ pushed' = Append(pushed, point)
    /\ UNCHANGED oracleVars

(***************************************************************************)
(* Inputs explored by the specifications                                   *)
(***************************************************************************)
\* signers are accounts with a private key, never Pubkey::default()
Signers == 1 .. NumKeys

\* points pushed in SpecChunk
ChunkPoints ==
    {PricePoint(100, 50, 10, 0), PricePoint(200, 60, 20, 0), PricePointDefault}

\* permission arguments and required masks explored in SpecGov
PermInputs == {UPDATE_PRICE, ADMIN_ALL}

\* required masks passed to check_member_permission in SpecGov
RequiredInputs == {UPDATE_PRICE, ADD_FEED, ADMIN_ALL}

GovernanceConfig(member_count, initial_members, member_permissions) ==
    [member_count |-> member_count, initial_members |-> initial_members,
     member_permissions |-> member_permissions, multisig_threshold |-> 1,
     voting_period |-> 1, execution_delay |-> 0, quorum_threshold |-> 1,
     proposal_threshold |-> 1]

OracleConfig(asset_ok, twap_window, enable_circuit_breaker, governance_config) ==
    [asset_ok |-> asset_ok, twap_window |-> twap_window,
     confidence_threshold |-> 5000, manipulation_threshold |-> 5000,
     emergency_admin |-> 1, enable_circuit_breaker |-> enable_circuit_breaker,
     governance_config |-> governance_config]

\* SpecGov: every member list, count and permission assignment
GovInitConfigs ==
    {OracleConfig(TRUE, 15, FALSE, GovernanceConfig(n, m, p)) :
        n \in 0 .. MAX_MULTISIG_MEMBERS + 1,
        m \in [MemberSlots -> Pubkeys],
        p \in [MemberSlots -> {UPDATE_PRICE, ADMIN_ALL}]}

\* pads a short sequence to a full member array
MemberArray(seq, default) ==
    [i \in MemberSlots |-> IF i < Len(seq) THEN seq[i + 1] ELSE default]

\* Spec: key 1 is the admin authority and the only member
OracleInitConfigs ==
    {OracleConfig(ok, w, cb,
        GovernanceConfig(1, MemberArray(<<1>>, DefaultPubkey),
                         MemberArray(<<ADMIN_ALL>>, {}))) :
        ok \in BOOLEAN, w \in {10, 15}, cb \in BOOLEAN}

\* outcomes of fetch_raydium_price_from_observations
FetchOutcomes ==
    {[ok |-> FALSE, err |-> "ExcessiveDeviation"],
     [ok |-> TRUE, price |-> 0, confidence |-> 9000,
      manipulation_score |-> 100, liquidity_depth |-> 5000],
     [ok |-> TRUE, price |-> 100, confidence |-> 9000,
      manipulation_score |-> 100, liquidity_depth |-> 5000]}

\* pool accounts offered to update_price and register_price_feed
Pools == {1, 2}

UpdateConfigs == {[window_seconds |-> w] : w \in {15, 20}}

FeedConfigs ==
    {[source_address |-> a, source_type |-> SourceType_DEX, weight |-> w,
      min_liquidity |-> MIN_CLMM_LIQUIDITY] : a \in {1}, w \in {0, 6000}}

ClockSteps == {1}

(***************************************************************************)
(* Specifications                                                          *)
(***************************************************************************)
Init ==
    /\ chunk = EmptyChunk
    /\ pushed = <<>>
    /\ oracle_state = OracleZeroed
    /\ governance_state = GovernanceZeroed
    /\ chunks = [i \in 0 .. 2 |-> EmptyChunk]
    /\ clock = 1
    /\ call = [op |-> "none", result |-> "Ok"]
    /\ stored = <<>>

\* SpecChunk: arbitrary push sequences on one chunk
NextChunk == \E point \in ChunkPoints : Push(point)

SpecChunk == Init /\ [][NextChunk]_vars

\* SpecGov: initialisation with any member list, then the governance methods
NextGov ==
    \/ \E config \in GovInitConfigs : InitializeOracle(1, config)
    \/ \E count \in 0 .. MAX_MULTISIG_MEMBERS + 1 : SetActiveMemberCount(count)
    \/ \E i \in 0 .. MAX_MULTISIG_MEMBERS, perm \in PermInputs :
            GrantMemberPermission(i, perm)
    \/ \E i \in 0 .. MAX_MULTISIG_MEMBERS, perm \in PermInputs :
            RevokeMemberPermission(i, perm)
    \/ \E key \in Pubkeys, perm \in RequiredInputs :
            CheckMemberPermission(key, perm)

SpecGov == Init /\ [][NextGov]_vars

\* Spec: the three instructions, the clock and the operator flags
Next ==
    \/ \E config \in OracleInitConfigs : InitializeOracle(1, config)
    \/ \E authority \in Signers, feed_config \in FeedConfigs :
            RegisterPriceFeed(authority, feed_config)
    \/ \E authority \in Signers, pool \in Pools, config \in UpdateConfigs,
          fetched \in FetchOutcomes :
            UpdatePrice(authority, pool, config, fetched)
    \/ \E flag \in {CIRCUIT_BREAKER_ENABLED, EMERGENCY_MODE}, on \in BOOLEAN :
            SetFlag(flag, on)
    \/ \E d \in ClockSteps : AdvanceClock(d)

Spec == Init /\ [][Next]_vars

(***************************************************************************)
(* SpecTwap: the TWAP step of update_price as a function of the chunk      *)
(* contents, the rotation index, the window and the current time           *)
(***************************************************************************)
MaxTwapLen == 3
MaxTwapTime == 3

\* stored samples: valid ones at two prices and confidences, one with a
\* zero price and one with a zero timestamp
TwapPoints ==
    {PricePoint(100, 9000, t, 0) : t \in 1 .. MaxTwapTime - 1}
        \cup {PricePoint(300, 5000, t, 0) : t \in 2 .. MaxTwapTime}
        \cup {PricePoint(0, 9000, 2, 0), PricePoint(100, 9000, 0, 0)}

TwapSeqs(n) == UNION {[1 .. k -> TwapPoints] : k \in 0 .. n}

\* the chunk that results from pushing the points in order
RECURSIVE chunk_of(_)
chunk_of(points) ==
    IF points = <<>> THEN EmptyChunk
    ELSE push(chunk_of(SubSeq(points, 1, Len(points) - 1)), points[Len(points)])

TwapClocks == {MaxTwapTime, MaxTwapTime + 1}
TwapWindows == {1, 2, 10}
TwapFetched ==
    {[ok |-> TRUE, price |-> pr, confidence |-> 9000, manipulation_score |-> 100,
      liquidity_depth |-> 5000] : pr \in {100, 250}}

InitTwap ==
    /\ chunk = EmptyChunk
    /\ pushed = <<>>
    /\ governance_state = GovernanceZeroed
    /\ stored = <<>>
    /\ call = [op |-> "none", result |-> "Ok"]
    /\ clock \in TwapClocks
    /\ chunks \in {[i \in 0 .. 2 |-> IF i = 0 THEN chunk_of(a)
                                     ELSE IF i = 1 THEN chunk_of(b)
                                     ELSE EmptyChunk] :
                        a \in TwapSeqs(MaxTwapLen), b \in TwapSeqs(1)}
    /\ oracle_state \in {[OracleZeroed EXCEPT !.initialized = TRUE,
                                              !.current_chunk_index = idx,
                                              !.twap_window = w] :
                            idx \in 0 .. 2, w \in TwapWindows}

\* the TWAP step applied to the current accounts and clock
ComputeTwap(fetched) ==
    /\ call.op = "none"
    /\ call' = [op |-> "update_price_twap", fetched |-> fetched, result |-> "Ok",
                out |-> update_price_twap(chunks, oracle_state.current_chunk_index,
                                          oracle_state.twap_window, clock, fetched)]
    /\ UNCHANGED <<chunk, pushed, oracle_state, governance_state, chunks,
                   clock, stored>>

NextTwap == \E fetched \in TwapFetched : ComputeTwap(fetched)

SpecTwap == InitTwap /\ [][NextTwap]_vars

(***************************************************************************)
(* Properties of HistoricalChunk (SpecChunk)                               *)
(***************************************************************************)
\* C1: after every sequence of pushes on an empty chunk, count <= capacity,
\* head < capacity, tail < capacity, and head = tail exactly when the chunk
\* is empty or full
C1_RingInvariant ==
    /\ chunk.count <= BUFFER_SIZE
    /\ chunk.head < BUFFER_SIZE
    /\ chunk.tail < BUFFER_SIZE
    /\ (chunk.head = chunk.tail) <=> (chunk.count = 0 \/ chunk.count = BUFFER_SIZE)

\* a full chunk that has wrapped and evicted, with head = tail off slot 0
C1_Witness ==
    /\ Len(pushed) > BUFFER_SIZE
    /\ chunk.count = BUFFER_SIZE
    /\ chunk.head = chunk.tail
    /\ chunk.head # 0

\* C2: walking forward from tail for count steps yields exactly the last
\* min(N, capacity) of the N pushed points, in push order
C2_FifoOrder == collect_fifo_view(chunk) = LastN(pushed, BUFFER_SIZE)

\* more points pushed than the capacity, the evicted point differing from
\* the oldest point still held
C2_Witness ==
    /\ Len(pushed) > BUFFER_SIZE
    /\ pushed[1] # pushed[Len(pushed) - BUFFER_SIZE + 1]
    /\ collect_fifo_view(chunk)[1] = pushed[Len(pushed) - BUFFER_SIZE + 1]

\* C3: after any push latest() is the point just pushed, and latest() is
\* None exactly when count = 0
C3_LatestTracksPush ==
    /\ pushed # <<>> => latest(chunk) = <<pushed[Len(pushed)]>>
    /\ (latest(chunk) = <<>>) <=> (chunk.count = 0)

\* head has wrapped to slot 0, so the latest point sits in the last slot,
\* and it differs from the point in slot 0
C3_Witness ==
    /\ pushed # <<>>
    /\ chunk.head = 0
    /\ latest(chunk) = <<pushed[Len(pushed)]>>
    /\ chunk.price_points[0] # pushed[Len(pushed)]

(***************************************************************************)
(* Properties of update_price (Spec)                                       *)
(***************************************************************************)
\* C4: an update_price call that returns an error, whatever the reason,
\* leaves the oracle state, every feed record and the three chunks exactly
\* as they were
C4_FailedUpdateChangesNothing ==
    [][(call'.op = "update_price" /\ call'.result # "Ok")
            => UNCHANGED <<oracle_state, chunks>>]_vars

\* an update rejected at the last validation (pool not a registered feed)
\* on an oracle that already has a feed and stored history
C4_Witness ==
    /\ call.op = "update_price"
    /\ call.result = "InvalidSourceAddress"
    /\ oracle_state.active_feed_count > 0
    /\ chunks[0].count > 0

\* C5: update_price changes oracle state only for a caller that is an
\* active governance member holding UPDATE_PRICE; for any other caller it
\* fails and changes nothing
C5_UpdateRequiresPermission ==
    [][(/\ call'.op = "update_price"
        /\ check_member_permission(governance_state, call'.authority,
                                   UPDATE_PRICE) # "Ok")
            => (call'.result # "Ok" /\ UNCHANGED <<oracle_state, chunks>>)]_vars

\* C8: a successful update_price that finds the active chunk full advances
\* current_chunk_index to (index + 1) mod 3, otherwise keeps it; a sample
\* written by the call goes into the chunk at the resulting index and into
\* no other chunk; the index is always 0, 1 or 2
C8_RotationTargetsNewChunk ==
    [][/\ oracle_state'.current_chunk_index \in 0 .. 2
       /\ (call'.op = "update_price" /\ call'.result = "Ok") =>
            LET idx == oracle_state.current_chunk_index
                full == chunks[idx].count = BUFFER_SIZE
                new == oracle_state'.current_chunk_index
            IN /\ new = IF full THEN (idx + 1) % 3 ELSE idx
               /\ \A j \in 0 .. 2 : j # new => chunks'[j] = chunks[j]
               /\ chunks' # chunks =>
                    /\ latest(chunks'[new]) # <<>>
                    /\ latest(chunks'[new])[1].timestamp = clock
                    /\ chunks'[new] = push(chunks[new], latest(chunks'[new])[1])
      ]_vars

\* the call found chunk 0 full, moved to chunk 1 and wrote its sample there
C8_Witness ==
    /\ call.op = "update_price"
    /\ call.result = "Ok"
    /\ oracle_state.current_chunk_index = 1
    /\ chunks[0].count = BUFFER_SIZE
    /\ chunks[1].count = 1
    /\ latest(chunks[1])[1].timestamp = clock

\* the samples of the three chunks, concatenated oldest chunk first, each
\* chunk walked forward from its tail
ChainView ==
    LET ordered == order_chunks(chunks[0], chunks[1], chunks[2],
                                oracle_state.current_chunk_index)
    IN collect_fifo_view(ordered[1]) \o collect_fifo_view(ordered[2])
           \o collect_fifo_view(ordered[3])

\* C9: after any sequence of successful updates under a non-decreasing
\* clock, the timestamps never decrease along the chain view
C9_ChainIsChronological ==
    \A i \in 1 .. Len(ChainView) - 1 :
        ChainView[i].timestamp <= ChainView[i + 1].timestamp

\* C10: any two samples stored one after the other, also across a chunk
\* rotation, are at least MIN_HISTORICAL_INTERVAL apart
C10_StoredSamplesSpaced ==
    \A i \in 1 .. Len(stored) - 1 :
        stored[i + 1].timestamp - stored[i].timestamp >= MIN_HISTORICAL_INTERVAL

(***************************************************************************)
(* SpecFetch: the cross-method validation of                               *)
(* fetch_raydium_price_from_observations as a function of the three ticks  *)
(* and the caller's max_tick_deviation                                     *)
(***************************************************************************)
MaxTick == 2

I32_MAX == 2147483647

\* i64::abs_diff
abs_diff(a, b) == IF a >= b THEN a - b ELSE b - a

\* i32::try_from(dev).unwrap_or(i32::MAX)
dev_to_i32(dev) == IF dev > I32_MAX THEN I32_MAX ELSE dev

\* the fallback of fetch_raydium_price_from_observations: a TWAP tick of 0
\* is replaced by the pool's current tick
spot_fallback(twap_tick, tick_current) ==
    IF twap_tick = 0 THEN tick_current ELSE twap_tick

\* a variant of the validation that leaves out the TWAP against T2EMA check
fetch_cross_validate_single(twap_tick_raw, t2ema_tick, tick_current, max_tick_deviation) ==
    IF ~(dev_to_i32(abs_diff(t2ema_tick, tick_current)) <= max_tick_deviation)
    THEN [ok |-> FALSE, err |-> "ExcessiveDeviation"]
    ELSE [ok |-> TRUE,
          twap_tick |-> IF twap_tick_raw = 0 THEN tick_current ELSE twap_tick_raw,
          t2ema_tick |-> t2ema_tick,
          dev_vs_current |-> dev_to_i32(abs_diff(t2ema_tick, tick_current))]

\* phases 4 and 5 of fetch_raydium_price_from_observations: the spot-tick
\* fallback of a zero TWAP tick, then the two deviation checks; on success
\* the T2EMA tick goes on to the price conversion
fetch_cross_validate(twap_tick_raw, t2ema_tick, tick_current, max_tick_deviation) ==
    LET twap_tick == spot_fallback(twap_tick_raw, tick_current)
        dev_vs_current == dev_to_i32(abs_diff(t2ema_tick, tick_current))
        dev_twap_vs_t2ema == dev_to_i32(abs_diff(twap_tick, t2ema_tick))
    IN IF ~(dev_vs_current <= max_tick_deviation)
       THEN [ok |-> FALSE, err |-> "ExcessiveDeviation"]
       ELSE IF ~(dev_twap_vs_t2ema <= max_tick_deviation)
            THEN [ok |-> FALSE, err |-> "ExcessiveDeviation"]
       ELSE [ok |-> TRUE, twap_tick |-> twap_tick, t2ema_tick |-> t2ema_tick,
             dev_vs_current |-> dev_vs_current]

Ticks == (0 - MaxTick) .. MaxTick
TickDeviations == -1 .. MaxTick

\* the accounts have been read: the ticks and the parameter are at hand
InitFetch ==
    /\ chunk = EmptyChunk
    /\ pushed = <<>>
    /\ oracle_state = OracleZeroed
    /\ governance_state = GovernanceZeroed
    /\ chunks = [i \in 0 .. 2 |-> EmptyChunk]
    /\ clock = 1
    /\ stored = <<>>
    /\ call \in {[op |-> "read_observation", result |-> "Ok",
                  twap_tick_raw |-> tw, t2ema_tick |-> te, tick_current |-> tc,
                  max_tick_deviation |-> d] :
                    tw \in Ticks, te \in Ticks, tc \in Ticks, d \in TickDeviations}

FetchPrice ==
    /\ call.op = "read_observation"
    /\ \E out \in {fetch_cross_validate(call.twap_tick_raw, call.t2ema_tick,
                                        call.tick_current, call.max_tick_deviation)} :
            call' = [call EXCEPT !.op = "fetch_price",
                                 !.result = IF out.ok THEN "Ok" ELSE out.err]
                        @@ [out |-> out]
    /\ UNCHANGED <<chunk, pushed, oracle_state, governance_state, chunks,
                   clock, stored>>

NextFetch == FetchPrice

SpecFetch == InitFetch /\ [][NextFetch]_vars

(***************************************************************************)
(* Properties of the cross-method validation (SpecFetch)                   *)
(***************************************************************************)
\* the TWAP tick the checks see: the spot tick stands in for a zero
FetchTwapTick == IF call.twap_tick_raw = 0 THEN call.tick_current ELSE call.twap_tick_raw

WithinDeviation(a, b) == abs_diff(a, b) <= call.max_tick_deviation

\* C15: fetch_price returns a price only if the TWAP tick and the T2EMA
\* tick are each within max_tick_deviation of the pool's current tick and
\* of each other; if any of the three bounds is exceeded the call fails
\* with ExcessiveDeviation
C15_ThreeDeviationBounds ==
    call.op = "fetch_price" =>
        /\ call.out.ok <=>
            /\ WithinDeviation(FetchTwapTick, call.tick_current)
            /\ WithinDeviation(call.t2ema_tick, call.tick_current)
            /\ WithinDeviation(FetchTwapTick, call.t2ema_tick)
        /\ ~call.out.ok => call.out.err = "ExcessiveDeviation"

\* C15 as amended: fetch_price returns a price only if the T2EMA tick is
\* within max_tick_deviation of the pool's current tick and the TWAP tick is
\* within max_tick_deviation of the T2EMA tick; if either bound is exceeded
\* the call fails with ExcessiveDeviation
C15_TwoDeviationBounds ==
    call.op = "fetch_price" =>
        /\ call.out.ok <=>
            /\ WithinDeviation(call.t2ema_tick, call.tick_current)
            /\ WithinDeviation(FetchTwapTick, call.t2ema_tick)
        /\ ~call.out.ok => call.out.err = "ExcessiveDeviation"

\* a price was returned although the TWAP tick is further from the current
\* tick than max_tick_deviation
C15_Witness ==
    /\ call.op = "fetch_price"
    /\ call.out.ok
    /\ call.max_tick_deviation > 0
    /\ ~WithinDeviation(FetchTwapTick, call.tick_current)

(***************************************************************************)
(* Properties of the TWAP step (SpecTwap)                                  *)
(***************************************************************************)
\* the chunks in the order the aggregator visits them, and the samples of
\* that visit as one sequence
TwapOrdered ==
    order_chunks(chunks[0], chunks[1], chunks[2], oracle_state.current_chunk_index)

TwapWalk ==
    walk_points(TwapOrdered[1]) \o walk_points(TwapOrdered[2])
        \o walk_points(TwapOrdered[3])

TwapCutoff == actual_cutoff_time(TwapOrdered, oracle_state.twap_window, clock)

AllChunksEmpty == \A i \in 0 .. 2 : chunks[i].count = 0

\* C11: when all three chunks are empty the aggregator is skipped: the
\* TWAP result is the price of the current observation, with
\* data_points_used = 1 and a covered time span of 0
C11_ColdStartSeedsFromObservation ==
    (call.op = "update_price_twap" /\ AllChunksEmpty) =>
        /\ call.out.ok
        /\ call.out.twap_price = call.fetched.price
        /\ call.out.data_points_used = 1
        /\ call.out.covered_time_span = 0

\* a cold start seeded from an observation priced 250
C11_Witness ==
    /\ call.op = "update_price_twap"
    /\ AllChunksEmpty
    /\ call.fetched.price = 250
    /\ call.out.twap_price = 250

\* the timestamps of the valid stored samples
ValidTimes == {TwapWalk[k].timestamp : k \in {j \in 1 .. Len(TwapWalk) : valid_point(TwapWalk[j])}}

\* within each chunk the valid samples are in the order of their timestamps,
\* as pushes under a non-decreasing clock leave them
ChunksChronological ==
    \A i \in 0 .. 2 :
        LET w == walk_points(chunks[i])
        IN \A j, k \in 1 .. Len(w) :
            (j < k /\ valid_point(w[j]) /\ valid_point(w[k]))
                => w[j].timestamp <= w[k].timestamp

\* C12: when the oldest valid stored sample is newer than now - window the
\* cutoff moves to that sample's timestamp and a result is returned if that
\* timestamp is strictly before now; otherwise the call fails with
\* NotEnoughHistory
C12_CutoffShrinksToOldest ==
    (/\ call.op = "update_price_twap"
     /\ ChunksChronological
     /\ ValidTimes # {}
     /\ SetMin(ValidTimes) > clock - oracle_state.twap_window) =>
        IF SetMin(ValidTimes) < clock
        THEN /\ call.out.ok
             /\ call.out.oldest_timestamp = SetMin(ValidTimes)
             /\ call.out.covered_time_span = clock - SetMin(ValidTimes)
        ELSE ~call.out.ok /\ call.out.err = "NotEnoughHistory"

\* the window reaches back before the oldest sample, which is before now:
\* the result starts at that sample
C12_Witness ==
    /\ call.op = "update_price_twap"
    /\ ChunksChronological
    /\ ValidTimes # {}
    /\ SetMin(ValidTimes) > clock - oracle_state.twap_window
    /\ SetMin(ValidTimes) < clock
    /\ call.out.ok
    /\ call.out.oldest_timestamp = SetMin(ValidTimes)
    /\ Cardinality(ValidTimes) > 1

\* the four sums of the accumulator
TwapSums(acc) ==
    <<acc.weighted_price_sum, acc.total_weight, acc.conf_time_sum,
      acc.time_only_weight>>

\* the accumulator after the first n samples of the visit
AccAfter(n) == visit_points(AccInit, SubSeq(TwapWalk, 1, n), TwapCutoff)

\* the samples of the visit that are not strictly later than the sample
\* retained before them
NotLaterSamples ==
    {k \in 1 .. Len(TwapWalk) :
        /\ AccAfter(k - 1).previous_point # <<>>
        /\ TwapWalk[k].timestamp <= AccAfter(k - 1).previous_point[1].timestamp}

\* C13: a sample whose timestamp is not strictly later than the previously
\* retained sample's contributes nothing to the price-weighted sum, the
\* total weight, the confidence sum or the time-only weight
C13_NotLaterSampleAddsNothing ==
    \A k \in NotLaterSamples : TwapSums(AccAfter(k)) = TwapSums(AccAfter(k - 1))

\* a valid sample inside the window that repeats or precedes the retained
\* timestamp was visited and the aggregation returned a result
C13_Witness ==
    /\ call.op = "update_price_twap"
    /\ call.out.ok
    /\ \E k \in NotLaterSamples :
        /\ valid_point(TwapWalk[k])
        /\ TwapWalk[k].timestamp >= TwapCutoff
        /\ TwapWalk[k].timestamp < AccAfter(k - 1).previous_point[1].timestamp

\* C14: the aggregator never divides by zero: for every chunk content,
\* window and current time it returns a result or fails with
\* NotEnoughHistory, never by a panic
C14_NoDivisionByZero ==
    (call.op = "update_price_twap" /\ ~call.out.ok)
        => call.out.err = "NotEnoughHistory"

\* the only valid samples carry the current time, so no segment has a
\* positive length and both weights are zero: NotEnoughHistory
C14_Witness ==
    /\ call.op = "update_price_twap"
    /\ ValidTimes = {clock}
    /\ ~call.out.ok
    /\ call.out.err = "NotEnoughHistory"

(***************************************************************************)
(* Properties of GovernanceState (SpecGov)                                 *)
(***************************************************************************)
\* the required masks a caller can ask for: every single permission and
\* the composite roles
RequiredMasks == {{b} : b \in VALID_MASK} \cup {ADMIN_ALL, OPERATOR_ALL, VALID_MASK}

\* the active slots that hold the given key
ActiveSlotsOf(g, key) ==
    {i \in MemberSlots : i < g.active_member_count /\ g.multisig_members[i] = key}

\* C6: a member whose slot index is at or beyond active_member_count fails
\* check_member_permission with UnauthorizedCaller for every required
\* permission, and changing the count leaves the stored keys and permission
\* bits untouched
C6_DisplacedMemberRejected ==
    [][/\ \A i \in MemberSlots, required \in RequiredMasks :
            (/\ i >= governance_state'.active_member_count
             /\ governance_state'.multisig_members[i] # DefaultPubkey)
                => check_member_permission(governance_state',
                       governance_state'.multisig_members[i], required)
                   = "UnauthorizedCaller"
       /\ call'.op = "set_active_member_count" =>
            /\ governance_state'.multisig_members = governance_state.multisig_members
            /\ governance_state'.member_permissions = governance_state.member_permissions
      ]_vars

\* a check for a displaced member whose stored bits still contain the
\* required permission was answered with UnauthorizedCaller
C6_Witness ==
    /\ call.op = "check_member_permission"
    /\ call.result = "UnauthorizedCaller"
    /\ \E i \in MemberSlots :
        /\ i >= governance_state.active_member_count
        /\ governance_state.multisig_members[i] = call.member_key
        /\ call.member_key # DefaultPubkey
        /\ call.required_permission \subseteq governance_state.member_permissions[i]

\* C7: check_member_permission answers UnauthorizedCaller exactly when the
\* caller is in no active slot, InsufficientPermissions exactly when the
\* caller is in an active slot without the required bit, and Ok otherwise
C7_ErrorsAreDistinct ==
    (/\ call.op = "check_member_permission"
     /\ call.member_key # DefaultPubkey
     /\ Cardinality(call.required_permission) = 1) =>
        LET holders == ActiveSlotsOf(governance_state, call.member_key)
            holds == \E i \in holders :
                        call.required_permission
                            \subseteq governance_state.member_permissions[i]
        IN call.result = IF holders = {} THEN "UnauthorizedCaller"
                         ELSE IF ~holds THEN "InsufficientPermissions"
                         ELSE "Ok"

\* an active member without the required bit was answered with
\* InsufficientPermissions
C7_Witness ==
    /\ call.op = "check_member_permission"
    /\ call.result = "InsufficientPermissions"
    /\ ActiveSlotsOf(governance_state, call.member_key) # {}
    /\ Cardinality(call.required_permission) = 1

(***************************************************************************)
(* Halting                                                                 *)
(***************************************************************************)
\* the oracle is halted when either halt flag is set
OracleHalted ==
    \/ is_circuit_breaker_enabled(oracle_state.flags)
    \/ is_emergency_mode(oracle_state.flags)

\* C16: update_price on a halted oracle (circuit-breaker flag or
\* emergency-mode flag set) is rejected and changes neither the oracle
\* account nor the chunks
C16_HaltedOracleRejectsUpdate ==
    [][(call'.op = "update_price" /\ OracleHalted) =>
            (call'.result # "Ok" /\ UNCHANGED <<oracle_state, chunks>>)]_vars

(***************************************************************************)
(* Feed registration                                                       *)
(***************************************************************************)
\* source accounts offered to register_price_feed: one more than the
\* feed array holds
FeedSources == 1 .. MAX_PRICE_FEEDS + 1

\* feed configurations: a zero weight, and weights of which two or three
\* fit under WEIGHT_PRECISION but two of the larger do not
FeedRegConfigs ==
    {[source_address |-> a, source_type |-> SourceType_DEX, weight |-> w,
      min_liquidity |-> MIN_CLMM_LIQUIDITY] :
        a \in FeedSources, w \in {0, 3000, 6000}}

\* key 1 is the admin authority; key 2 is a second member that holds
\* either ADD_FEED alone or VIEW_METRICS alone
FeedInitConfigs ==
    {OracleConfig(ok, 15, cb,
        GovernanceConfig(2, MemberArray(<<1, 2>>, DefaultPubkey),
                         MemberArray(<<ADMIN_ALL, p>>, {}))) :
        ok \in BOOLEAN, cb \in BOOLEAN, p \in {ADD_FEED, VIEW_METRICS}}

NextFeed ==
    \/ \E config \in FeedInitConfigs : InitializeOracle(1, config)
    \/ \E count \in 1 .. MAX_MULTISIG_MEMBERS : SetActiveMemberCount(count)
    \/ \E authority \in Signers, feed_config \in FeedRegConfigs :
            RegisterPriceFeed(authority, feed_config)
    \/ \E on \in BOOLEAN : SetFlag(CIRCUIT_BREAKER_ENABLED, on)

SpecFeed == Init /\ [][NextFeed]_vars

\* the key sits in one of the first active_member_count slots and that
\* slot holds ADD_FEED
MayAddFeed(g, key) ==
    \E i \in ActiveSlotsOf(g, key) : ADD_FEED \subseteq g.member_permissions[i]

\* C17: register_price_feed changes the oracle account only when the
\* signer is one of the first active_member_count members and holds
\* ADD_FEED; for any other signer the call fails and adds nothing
C17_OnlyPermittedMemberAddsFeed ==
    [][call'.op = "register_price_feed" =>
        /\ (oracle_state' # oracle_state =>
                MayAddFeed(governance_state, call'.authority))
        /\ (~MayAddFeed(governance_state, call'.authority) =>
                /\ call'.result # "Ok"
                /\ UNCHANGED oracle_state)]_vars

\* the second member, holding ADD_FEED alone, has registered a feed
C17_Witness ==
    /\ call.op = "register_price_feed"
    /\ call.result = "Ok"
    /\ call.authority = 2
    /\ oracle_state.active_feed_count >= 1
    /\ \E i \in ActiveSlotsOf(governance_state, 2) :
            governance_state.member_permissions[i] = ADD_FEED

\* C18: a failed register_price_feed leaves the oracle account as it was;
\* a successful one writes the new feed into the slot at the previous
\* active_feed_count, raises active_feed_count by one, and leaves every
\* other slot and every other field as they were
C18_RegisterWritesOneSlot ==
    [][call'.op = "register_price_feed" =>
        IF call'.result # "Ok"
        THEN UNCHANGED oracle_state
        ELSE /\ oracle_state.active_feed_count \in FeedSlots
             /\ oracle_state'.active_feed_count =
                    oracle_state.active_feed_count + 1
             /\ \A i \in FeedSlots :
                    i # oracle_state.active_feed_count =>
                        oracle_state'.price_feeds[i] = oracle_state.price_feeds[i]
             /\ oracle_state'.price_feeds[oracle_state.active_feed_count]
                    .source_address = call'.feed_config.source_address
             /\ oracle_state'.price_feeds[oracle_state.active_feed_count]
                    .weight = call'.feed_config.weight
             /\ [oracle_state' EXCEPT
                    !.price_feeds = oracle_state.price_feeds,
                    !.active_feed_count = oracle_state.active_feed_count]
                  = oracle_state]_vars

\* a second feed has been registered behind a first one
C18_Witness ==
    /\ call.op = "register_price_feed"
    /\ call.result = "Ok"
    /\ oracle_state.active_feed_count = 2
    /\ oracle_state.price_feeds[1].source_address = call.feed_config.source_address
    /\ oracle_state.price_feeds[0].source_address # DefaultPubkey

\* no two of the first active_feed_count slots hold the same source address
ActiveSourcesDistinct(o) ==
    \A i, j \in FeedSlots :
        (i < o.active_feed_count /\ j < o.active_feed_count /\ i # j) =>
            o.price_feeds[i].source_address # o.price_feeds[j].source_address

\* one of the first active_feed_count slots holds the source address
SourceIsActive(o, source_address) ==
    \E i \in FeedSlots :
        /\ i < o.active_feed_count
        /\ o.price_feeds[i].source_address = source_address

\* C19: no two active feeds share a source address, and registering a
\* source address that an active feed already holds fails with
\* DuplicateFeedSource
C19_DuplicateAlwaysNamed ==
    [][/\ ActiveSourcesDistinct(oracle_state')
       /\ (/\ call'.op = "register_price_feed"
           /\ SourceIsActive(oracle_state, call'.feed_config.source_address))
            => call'.result = "DuplicateFeedSource"]_vars

\* C19 (amended): no two active feeds share a source address, and
\* registering a source address that an active feed already holds fails
\* and changes nothing; the error is DuplicateFeedSource when the feed
\* array is not full, the circuit-breaker flag is clear and the signer
\* passes the ADD_FEED check, and otherwise the error of the first of
\* those three checks that fails
C19_DuplicateRejected ==
    [][/\ ActiveSourcesDistinct(oracle_state')
       /\ (/\ call'.op = "register_price_feed"
           /\ SourceIsActive(oracle_state, call'.feed_config.source_address))
            => /\ UNCHANGED oracle_state
               /\ call'.result =
                    IF oracle_state.active_feed_count >= MAX_PRICE_FEEDS
                    THEN "TooManyFeeds"
                    ELSE IF is_circuit_breaker_enabled(oracle_state.flags)
                    THEN "CircuitBreakerActive"
                    ELSE IF ActiveSlotsOf(governance_state, call'.authority) = {}
                    THEN "UnauthorizedCaller"
                    ELSE IF ~MayAddFeed(governance_state, call'.authority)
                    THEN "InsufficientPermissions"
                    ELSE "DuplicateFeedSource"]_vars

\* a registration was refused as a duplicate of an active feed
C19_Witness ==
    /\ call.op = "register_price_feed"
    /\ call.result = "DuplicateFeedSource"
    /\ SourceIsActive(oracle_state, call.feed_config.source_address)

\* C20: active_feed_count never exceeds the capacity of the feed array,
\* and a registration attempted on a full array fails with TooManyFeeds
\* and writes no slot
C20_FeedCountWithinCapacity ==
    [][/\ oracle_state'.active_feed_count <= MAX_PRICE_FEEDS
       /\ (/\ call'.op = "register_price_feed"
           /\ oracle_state.active_feed_count = MAX_PRICE_FEEDS)
            => /\ call'.result = "TooManyFeeds"
               /\ UNCHANGED oracle_state]_vars

\* a registration was refused because the feed array is full
C20_Witness ==
    /\ call.op = "register_price_feed"
    /\ call.result = "TooManyFeeds"
    /\ oracle_state.active_feed_count = MAX_PRICE_FEEDS

\* the sum of the weights in the first active_feed_count slots
ActiveWeightSum(o) ==
    SumOver([i \in FeedSlots |-> o.price_feeds[i].weight],
            {i \in FeedSlots : i < o.active_feed_count})

\* C21: the weights of the active feeds never add up to more than
\* WEIGHT_PRECISION
C21_TotalWeightWithinCeiling ==
    ActiveWeightSum(oracle_state) <= WEIGHT_PRECISION

\* a feed that would have taken the sum over the ceiling was refused
C21_Witness ==
    /\ call.op = "register_price_feed"
    /\ call.result = "ExcessiveTotalWeight"
    /\ ActiveWeightSum(oracle_state) + call.feed_config.weight > WEIGHT_PRECISION
    /\ ActiveWeightSum(oracle_state) > 0

(***************************************************************************)
(* Matching the pool against the feeds                                     *)
(***************************************************************************)
\* pool accounts offered to update_price, the account at the default
\* address among them
MatchPools == Pubkeys

\* read_pool demands that the pool account is owned by the Raydium
\* program; the account at the default address is the System Program,
\* which the native loader owns, so the fetch on it always fails
FetchOutcomesFor(pool) ==
    IF pool = DefaultPubkey
    THEN {[ok |-> FALSE, err |-> "InvalidOwner"]}
    ELSE FetchOutcomes

NextMatch ==
    \/ \E config \in OracleInitConfigs : InitializeOracle(1, config)
    \/ \E authority \in Signers, feed_config \in FeedRegConfigs :
            RegisterPriceFeed(authority, feed_config)
    \/ \E authority \in Signers, pool \in MatchPools, config \in UpdateConfigs :
            \E fetched \in FetchOutcomesFor(pool) :
                UpdatePrice(authority, pool, config, fetched)

SpecMatch == Init /\ [][NextMatch]_vars

PermWidth == 9

PermBitPositions == 0 .. PermWidth - 1

RECURSIVE Pow2(_)
Pow2(n) == IF n = 0 THEN 1 ELSE 2 * Pow2(n - 1)

\* Permissions::as_u64: the raw integer of a permission value
RECURSIVE as_u64(_)
as_u64(self) ==
    IF self = {} THEN 0
    ELSE LET i == CHOOSE j \in self : TRUE
         IN Pow2(i) + as_u64(self \ {i})

\* the permission value whose raw integer is n
Permissions_of(n) == {i \in PermBitPositions : (n \div Pow2(i)) % 2 = 1}

\* a variant of the constructor that keeps every bit of the raw value
from_u64_truncate_keeps_all(value) == Permissions_of(value)

\* Permissions::from_u64_truncate: Self(value & Self::VALID_MASK)
from_u64_truncate(value) == Permissions_of(BitAnd(value, as_u64(VALID_MASK)))

RawPatterns == 0 .. Pow2(PermWidth) - 1

InitPerm ==
    /\ chunk = EmptyChunk
    /\ pushed = <<>>
    /\ oracle_state = OracleZeroed
    /\ governance_state = GovernanceZeroed
    /\ chunks = [i \in 0 .. 2 |-> EmptyChunk]
    /\ clock = 1
    /\ stored = <<>>
    /\ call \in {[op |-> "raw", result |-> "Ok", value |-> v] : v \in RawPatterns}

\* truncates the raw value, then stores the result and truncates it again
Truncate ==
    /\ call.op = "raw"
    /\ \E out \in {from_u64_truncate(call.value)} :
            call' = [op |-> "from_u64_truncate", result |-> "Ok",
                     value |-> call.value, out |-> out,
                     again |-> from_u64_truncate(as_u64(out))]
    /\ UNCHANGED <<chunk, pushed, oracle_state, governance_state, chunks,
                   clock, stored>>

NextPerm == Truncate

SpecPerm == InitPerm /\ [][NextPerm]_vars

\* C23: the value built by from_u64_truncate has only bits of VALID_MASK,
\* and truncating its raw integer again returns the same value
C23_TruncateMasksAndIsIdempotent ==
    call.op = "from_u64_truncate" =>
        /\ call.out \subseteq VALID_MASK
        /\ call.again = call.out

\* a raw pattern with a defined bit and an unknown bit was truncated
C23_Witness ==
    /\ call.op = "from_u64_truncate"
    /\ call.value >= Pow2(7)
    /\ call.out # {}
    /\ as_u64(call.out) # call.value

(***************************************************************************)
(* Stored permission bits                                                  *)
(***************************************************************************)
\* the lowest bit outside VALID_MASK; a Permissions value carrying it can
\* arrive in instruction data, since the type deserialises from any u64
UNKNOWN_BIT == {7}

\* permission arguments: a defined bit, a composite role, an unknown bit
MaskPermInputs == {UPDATE_PRICE, OPERATOR_ALL, UNKNOWN_BIT}

\* key 1 is the admin authority, key 2 a second member; either may be
\* supplied with the unknown bit
MaskInitConfigs ==
    {OracleConfig(ok, 15, FALSE,
        GovernanceConfig(2, MemberArray(<<1, 2>>, DefaultPubkey),
                         MemberArray(<<ADMIN_ALL \cup a, b>>, {}))) :
        ok \in BOOLEAN, a \in {{}, UNKNOWN_BIT},
        b \in {UPDATE_PRICE, UPDATE_PRICE \cup UNKNOWN_BIT}}

\* member_permissions[member_index].toggle(permission), applied to the
\* account's array directly
ToggleMemberPermission(member_index, permission) ==
    /\ oracle_state.initialized
    /\ governance_state' =
            [governance_state EXCEPT !.member_permissions[member_index] =
                                        Permissions_toggle(@, permission)]
    /\ call' = [op |-> "toggle", member_index |-> member_index,
                permission |-> permission, result |-> "Ok"]
    /\ UNCHANGED <<chunk, pushed, oracle_state, chunks, clock, stored>>

NextMask ==
    \/ \E config \in MaskInitConfigs : InitializeOracle(1, config)
    \/ \E i \in 0 .. MAX_MULTISIG_MEMBERS, perm \in MaskPermInputs :
            GrantMemberPermission(i, perm)
    \/ \E i \in 0 .. MAX_MULTISIG_MEMBERS, perm \in MaskPermInputs :
            RevokeMemberPermission(i, perm)
    \/ \E i \in MemberSlots, perm \in MaskPermInputs :
            ToggleMemberPermission(i, perm)

SpecMask == Init /\ [][NextMask]_vars

\* C24: every member's stored permission bits lie within VALID_MASK
C24_StoredPermissionsWithinMask ==
    \A i \in MemberSlots :
        governance_state.member_permissions[i] \subseteq VALID_MASK

(***************************************************************************)
(* Saturation of a chunk                                                   *)
(***************************************************************************)
\* C25: a push on a chunk below capacity raises count by one and leaves
\* tail where it was; a push on a full chunk leaves count at capacity,
\* moves tail one slot on modulo the capacity and drops the oldest point
\* from the forward view; count never decreases
C25_PushSaturates ==
    [][/\ chunk'.count >= chunk.count
       /\ IF chunk.count < BUFFER_SIZE
          THEN /\ chunk'.count = chunk.count + 1
               /\ chunk'.tail = chunk.tail
               /\ collect_fifo_view(chunk') =
                      Append(collect_fifo_view(chunk), pushed'[Len(pushed')])
          ELSE /\ chunk'.count = BUFFER_SIZE
               /\ chunk'.tail = (chunk.tail + 1) % BUFFER_SIZE
               /\ collect_fifo_view(chunk') =
                      Append(Tail(collect_fifo_view(chunk)),
                             pushed'[Len(pushed')])]_chunkVars

\* the first push on a full chunk has moved tail off slot 0
C25_Witness ==
    /\ Len(pushed) = BUFFER_SIZE + 1
    /\ chunk.count = BUFFER_SIZE
    /\ chunk.tail = 1
    /\ collect_fifo_view(chunk)[1] = pushed[2]

(***************************************************************************)
(* The observation ring of the pool: the window search and the two walks   *)
(* of twap.rs, one loop iteration per step.  An observation is modelled   *)
(* by its block_timestamp (0 when uninitialised); the tick cumulatives    *)
(* steer no branch except the checked division.                           *)
(***************************************************************************)
\* slots of the observation ring
OBSERVATION_NUM == 3

MAX_STALENESS == 600

ObservationSlots == 0 .. OBSERVATION_NUM - 1

\* get_observation(index).block_timestamp(): the index is reduced modulo
\* the ring size
obs_timestamp(ring, index) == ring[index % OBSERVATION_NUM]

\* an i64 difference of two u32 timestamps cast to u32, as two 16-bit limbs
as_u32(d) ==
    IF d >= 0 THEN [hi |-> d \div U16, lo |-> d % U16]
    ELSE [hi |-> U16 - 1, lo |-> U16 + d]

\* a variant of the test that takes an entry later than the target too
previous_before_equals_target_any(target_timestamp, previous_timestamp) == TRUE

\* target_timestamp.wrapping_sub(previous_timestamp) < (i64::MAX >> 1):
\* for timestamps far below 2^62 the wrapped difference is below the
\* threshold exactly when it is not negative
previous_before_equals_target(target_timestamp, previous_timestamp) ==
    target_timestamp - previous_timestamp >= 0

\* find_observation_for_window, the checks before the loop
window_precheck(ring, index_now, current_timestamp, window_size) ==
    IF ~(window_size >= OBSERVATION_UPDATE_DURATION) THEN "InvalidWindow"
    ELSE IF obs_timestamp(ring, index_now) = 0 THEN "InvalidIndex"
    ELSE IF ~(current_timestamp - obs_timestamp(ring, index_now) <= MAX_STALENESS)
         THEN "InsufficientTime"
    ELSE "Ok"

\* find_observation_for_window, after the loop: the triple returned
window_finish(ring, index_then, index_now) ==
    LET elapsed == as_u32(obs_timestamp(ring, index_now)
                            - obs_timestamp(ring, index_then))
    IN IF elapsed = as_u32(0)
       THEN [index_then |-> index_now, index_now |-> index_now,
             elapsed |-> as_u32(1)]
       ELSE [index_then |-> index_then, index_now |-> index_now,
             elapsed |-> elapsed]

\* for _ in 0..(OBSERVATION_NUM - 1): the loop has used up its range
window_exhausted(steps) == steps >= OBSERVATION_NUM - 1

\* one pass through the loop of find_observation_for_window
window_step(w) ==
    LET previous_index == IF w.index_then = 0 THEN OBSERVATION_NUM - 1
                          ELSE w.index_then - 1
        previous_timestamp == obs_timestamp(w.ring, previous_index)
        target_timestamp == w.current_timestamp - w.window_size
        done(index_then, steps) ==
            [w EXCEPT !.pc = "done", !.index_then = index_then,
                      !.steps = steps,
                      !.out = <<window_finish(w.ring, index_then, w.index_now)>>]
    IN IF window_exhausted(w.steps) THEN done(w.index_then, w.steps)
       ELSE IF previous_timestamp = 0 THEN done(w.index_then, w.steps + 1)
       ELSE IF previous_before_equals_target(target_timestamp, previous_timestamp)
            THEN done(previous_index, w.steps + 1)
       ELSE [w EXCEPT !.index_then = previous_index, !.steps = w.steps + 1]

\* find_observation_for_window is entered
WindowStart ==
    /\ call.op = "find_observation_for_window"
    /\ call.pc = "start"
    /\ \E r \in {window_precheck(call.ring, call.index_now,
                                 call.current_timestamp, call.window_size)} :
          call' = IF r = "Ok" THEN [call EXCEPT !.pc = "loop"]
                  ELSE [call EXCEPT !.pc = "done", !.result = r]
    /\ UNCHANGED <<chunk, pushed, oracle_state, governance_state, chunks,
                   clock, stored>>

WindowStep ==
    /\ call.op = "find_observation_for_window"
    /\ call.pc = "loop"
    /\ call' = window_step(call)
    /\ UNCHANGED <<chunk, pushed, oracle_state, governance_state, chunks,
                   clock, stored>>

\* a variant of the circuit breaker that never trips
walk_capped_never(iterations) == FALSE

\* if iterations >= OBSERVATION_NUM { break; }
walk_capped(iterations) == iterations >= OBSERVATION_NUM

\* a variant of the loop body that takes entries with a zero timestamp
\* as data
segment_walk_step_reads_uninitialized(w, math_error) ==
    LET j == (w.i + 1) % OBSERVATION_NUM
        timestamp_i == obs_timestamp(w.ring, w.i)
        timestamp_j == obs_timestamp(w.ring, j)
        delta_time == timestamp_j - timestamp_i
        advance(samples) ==
            IF j = w.index_now
            THEN [w EXCEPT !.pc = "done", !.i = j, !.samples = samples,
                           !.steps = w.steps + 1]
            ELSE [w EXCEPT !.i = j, !.samples = samples,
                           !.iterations = w.iterations + 1,
                           !.steps = w.steps + 1]
    IN IF walk_capped(w.iterations) THEN [w EXCEPT !.pc = "done"]
       ELSE IF delta_time = 0 THEN advance(w.samples)
       ELSE IF delta_time = -1 /\ math_error
            THEN [w EXCEPT !.pc = "done", !.result = "MathError",
                           !.steps = w.steps + 1]
       ELSE advance(Append(w.samples, w.i))

\* one pass through the loop shared, line for line, by t2ema_tick and
\* confidence_from_variance; samples lists the start index of every
\* segment that contributed a tick average; math_error says whether the
\* checked division overflowed, which only a divisor of -1 allows
segment_walk_step(w, math_error) ==
    LET j == (w.i + 1) % OBSERVATION_NUM
        timestamp_i == obs_timestamp(w.ring, w.i)
        timestamp_j == obs_timestamp(w.ring, j)
        delta_time == timestamp_j - timestamp_i
        advance(samples) ==
            IF j = w.index_now
            THEN [w EXCEPT !.pc = "done", !.i = j, !.samples = samples,
                           !.steps = w.steps + 1]
            ELSE [w EXCEPT !.i = j, !.samples = samples,
                           !.iterations = w.iterations + 1,
                           !.steps = w.steps + 1]
    IN IF walk_capped(w.iterations) THEN [w EXCEPT !.pc = "done"]
       ELSE IF timestamp_i = 0 \/ timestamp_j = 0
            THEN [w EXCEPT !.pc = "done", !.steps = w.steps + 1]
       ELSE IF delta_time = 0 THEN advance(w.samples)
       ELSE IF delta_time = -1 /\ math_error
            THEN [w EXCEPT !.pc = "done", !.result = "MathError",
                           !.steps = w.steps + 1]
       ELSE advance(Append(w.samples, w.i))

\* t2ema_tick is entered: the smoothing factor is checked
T2emaStart ==
    /\ call.op = "t2ema_tick"
    /\ call.pc = "start"
    /\ call' = IF call.alpha_basis_points > 0 /\ call.alpha_basis_points <= 10000
               THEN [call EXCEPT !.pc = "loop"]
               ELSE [call EXCEPT !.pc = "done", !.result = "InvalidWindow"]
    /\ UNCHANGED <<chunk, pushed, oracle_state, governance_state, chunks,
                   clock, stored>>

T2emaStep ==
    /\ call.op = "t2ema_tick"
    /\ call.pc = "loop"
    /\ \E math_error \in BOOLEAN : call' = segment_walk_step(call, math_error)
    /\ UNCHANGED <<chunk, pushed, oracle_state, governance_state, chunks,
                   clock, stored>>

VarianceStep ==
    /\ call.op = "confidence_from_variance"
    /\ call.pc = "loop"
    /\ \E math_error \in BOOLEAN : call' = segment_walk_step(call, math_error)
    /\ UNCHANGED <<chunk, pushed, oracle_state, governance_state, chunks,
                   clock, stored>>

WalkRest ==
    /\ chunk = EmptyChunk
    /\ pushed = <<>>
    /\ oracle_state = OracleZeroed
    /\ governance_state = GovernanceZeroed
    /\ chunks = [i \in 0 .. 2 |-> EmptyChunk]
    /\ clock = 1
    /\ stored = <<>>

\* the call record of a window search about to start
WindowCall(ring, index_now, current_timestamp, window_size) ==
    [op |-> "find_observation_for_window", pc |-> "start", result |-> "Ok",
     ring |-> ring, index_now |-> index_now,
     current_timestamp |-> current_timestamp, window_size |-> window_size,
     index_then |-> index_now, steps |-> 0, out |-> <<>>]

\* the call record of a walk about to start
WalkCall(op, ring, index_then, index_now, alpha_basis_points) ==
    [op |-> op, pc |-> IF op = "t2ema_tick" THEN "start" ELSE "loop",
     result |-> "Ok", ring |-> ring, index_then |-> index_then,
     index_now |-> index_now, alpha_basis_points |-> alpha_basis_points,
     i |-> index_then, iterations |-> 0, steps |-> 0, samples |-> <<>>]

(***************************************************************************)
(* SpecWindow: the window search on rings as the pool writes them          *)
(***************************************************************************)
\* more observations than the ring has slots are written, so it wraps
MaxObservations == OBSERVATION_NUM + 1

\* seconds between consecutive observations: the pool writes one only
\* when OBSERVATION_UPDATE_DURATION has passed since the last
ObservationGaps == {OBSERVATION_UPDATE_DURATION, 2 * OBSERVATION_UPDATE_DURATION}

FirstObservationTime == 100

\* the timestamp sequences of n observations
RECURSIVE ObservationTimes(_)
ObservationTimes(n) ==
    IF n = 1 THEN {<<FirstObservationTime>>}
    ELSE {Append(ts, ts[Len(ts)] + g) :
            ts \in ObservationTimes(n - 1), g \in ObservationGaps}

\* the ring after the observations were written in order from slot 0,
\* each to the slot after the previous one
ring_written(ts) ==
    [slot \in ObservationSlots |->
        LET ks == {k \in 1 .. Len(ts) : (k - 1) % OBSERVATION_NUM = slot}
        IN IF ks = {} THEN 0
           ELSE ts[CHOOSE k \in ks : \A l \in ks : l <= k]]

\* seconds between the newest observation and the call
WindowStaleness == {0, 15, 40}

WindowSizes == {10, 15, 30, 45}

InitWindow ==
    /\ WalkRest
    /\ \E n \in 1 .. MaxObservations :
        \E ts \in ObservationTimes(n), st \in WindowStaleness, w \in WindowSizes :
            call = WindowCall(ring_written(ts), (n - 1) % OBSERVATION_NUM,
                              ts[n] + st, w)

NextWindow == WindowStart \/ WindowStep

SpecWindow == InitWindow /\ [][NextWindow]_vars

\* the slots other than skip that hold an initialised entry at or before
\* the target
AtOrBeforeTarget(w, skip) ==
    {slot \in ObservationSlots \ skip :
        /\ w.ring[slot] # 0
        /\ w.ring[slot] <= w.current_timestamp - w.window_size}

\* the slot of the latest entry among the slots S
MostRecent(w, S) == CHOOSE slot \in S : \A other \in S : w.ring[other] <= w.ring[slot]

WindowSearchDone ==
    /\ call.op = "find_observation_for_window"
    /\ call.pc = "done"
    /\ call.result = "Ok"

\* C26: when the ring holds an initialised entry at or before
\* target = now - window_seconds, the search returns as index_then the
\* most recent entry at or before target
C26_ReturnsMostRecentAtOrBeforeTarget ==
    (WindowSearchDone /\ AtOrBeforeTarget(call, {}) # {}) =>
        call.out[1].index_then = MostRecent(call, AtOrBeforeTarget(call, {}))

\* C26 (amended): when the ring holds an initialised entry other than the
\* current one at or before target, the search returns as index_then the
\* most recent of those entries; the current entry is never a candidate
C26_ReturnsMostRecentEarlierEntry ==
    (WindowSearchDone /\ AtOrBeforeTarget(call, {call.index_now}) # {}) =>
        call.out[1].index_then =
            MostRecent(call, AtOrBeforeTarget(call, {call.index_now}))

\* on a wrapped ring the search went back more than one entry to reach
\* the most recent entry at or before the target
C26_Witness ==
    /\ WindowSearchDone
    /\ call.steps >= 2
    /\ AtOrBeforeTarget(call, {call.index_now}) # {}
    /\ call.out[1].index_then # call.index_now
    /\ \A slot \in ObservationSlots : call.ring[slot] # 0
    /\ call.ring[call.out[1].index_then] <= call.current_timestamp - call.window_size

(***************************************************************************)
(* SpecWalk: the three loops on any ring content and any indices           *)
(***************************************************************************)
\* timestamps of a ring in any state: uninitialised, equal, out of order
\* by one second
AnyTimestamps == {0, 100, 101}

AnyRings == [ObservationSlots -> AnyTimestamps]

\* indices as read from the account, the out-of-range value
\* OBSERVATION_NUM among them
AnyIndices == 0 .. OBSERVATION_NUM

InitWalk ==
    /\ WalkRest
    /\ \/ \E ring \in AnyRings, index_now \in AnyIndices,
            current_timestamp \in {110, 116, 800} :
              call = WindowCall(ring, index_now, current_timestamp,
                                OBSERVATION_UPDATE_DURATION)
       \/ \E ring \in AnyRings, index_then \in AnyIndices,
            index_now \in AnyIndices, alpha \in {0, 5000} :
              call = WalkCall("t2ema_tick", ring, index_then, index_now, alpha)
       \/ \E ring \in AnyRings, index_then \in AnyIndices,
            index_now \in AnyIndices :
              call = WalkCall("confidence_from_variance", ring, index_then,
                              index_now, 0)

NextWalk ==
    \/ WindowStart
    \/ WindowStep
    \/ T2emaStart
    \/ T2emaStep
    \/ VarianceStep

\* a loop that can take a step eventually takes it
SpecWalk == InitWalk /\ [][NextWalk]_vars /\ WF_vars(NextWalk)

\* C27: the backward window search makes fewer passes than the ring has
\* slots, the T2EMA and variance walks make at most as many passes as the
\* ring has slots, and each of the three loops ends
C27_WalksAreBounded ==
    /\ [](call.op = "find_observation_for_window" =>
            call.steps <= OBSERVATION_NUM - 1)
    /\ [](call.op \in {"t2ema_tick", "confidence_from_variance"} =>
            call.steps <= OBSERVATION_NUM)
    /\ <>[](call.pc = "done")

\* a walk whose end index is out of range went round the whole ring and
\* was stopped by the iteration cap
C27_Witness ==
    /\ call.op = "t2ema_tick"
    /\ call.pc = "done"
    /\ call.result = "Ok"
    /\ call.index_now = OBSERVATION_NUM
    /\ call.steps = OBSERVATION_NUM
    /\ call.iterations = OBSERVATION_NUM

(***************************************************************************)
(* Granting and revoking                                                   *)
(***************************************************************************)
\* C28: grant_member_permission and revoke_member_permission with an index
\* at or beyond active_member_count fail with UnauthorizedCaller and leave
\* the governance account as it was; with an active index they succeed and
\* change only that member's permission bits, adding or removing the bits
\* of the argument
C28_GrantRevokeTouchOnlyActiveTarget ==
    [][call'.op \in {"grant_member_permission", "revoke_member_permission"} =>
        IF call'.member_index >= governance_state.active_member_count
        THEN /\ call'.result = "UnauthorizedCaller"
             /\ UNCHANGED governance_state
        ELSE /\ call'.result = "Ok"
             /\ governance_state'.multisig_members =
                    governance_state.multisig_members
             /\ governance_state'.active_member_count =
                    governance_state.active_member_count
             /\ \A j \in MemberSlots :
                    governance_state'.member_permissions[j] =
                        IF j # call'.member_index
                        THEN governance_state.member_permissions[j]
                        ELSE IF call'.op = "grant_member_permission"
                        THEN governance_state.member_permissions[j]
                                \cup call'.permission
                        ELSE governance_state.member_permissions[j]
                                \ call'.permission]_vars

\* a grant aimed at a slot that holds a member but lies beyond the active
\* count was refused
C28_Witness ==
    /\ call.op = "grant_member_permission"
    /\ call.result = "UnauthorizedCaller"
    /\ call.member_index \in MemberSlots
    /\ call.member_index >= governance_state.active_member_count
    /\ governance_state.multisig_members[call.member_index] # DefaultPubkey
    /\ ~(call.permission \subseteq
            governance_state.member_permissions[call.member_index])

(***************************************************************************)
(* The member list accepted by initialize_oracle                           *)
(***************************************************************************)
\* the member list of g, which initialize_oracle copies from the first
\* member_count entries of its configuration: no default key, no key
\* twice, and the authority among them with every bit of ADMIN_ALL
MembersWellFormed(g, authority) ==
    /\ g.active_member_count \in 1 .. MAX_MULTISIG_MEMBERS
    /\ \A i \in MemberSlots :
        i < g.active_member_count => g.multisig_members[i] # DefaultPubkey
    /\ \A i, j \in MemberSlots :
        (i < j /\ j < g.active_member_count) =>
            g.multisig_members[i] # g.multisig_members[j]
    /\ \E i \in MemberSlots :
        /\ i < g.active_member_count
        /\ g.multisig_members[i] = authority
        /\ ADMIN_ALL \subseteq g.member_permissions[i]

\* C29: initialize_oracle succeeds only if each of the first member_count
\* member keys is non-default, those keys are pairwise distinct, and the
\* authority is one of them and holds every admin permission bit
C29_InitRequiresWellFormedMembers ==
    [][(call'.op = "initialize_oracle" /\ call'.result = "Ok") =>
            MembersWellFormed(governance_state', call'.authority)]_vars

\* an initialisation with a second, non-admin member was accepted
C29_Witness ==
    /\ call.op = "initialize_oracle"
    /\ call.result = "Ok"
    /\ governance_state.active_member_count = 2
    /\ governance_state.multisig_members[0] = call.authority
    /\ governance_state.member_permissions[1] = UPDATE_PRICE

(***************************************************************************)
(* Tick to square-root price                                               *)
(***************************************************************************)

\* how far around each power of two and each boundary the ticks are taken
TickSpan == 1

MIN_TICK == -443636

MAX_TICK == 443636

\* a u128 is sixteen base-256 limbs, least significant first
U128_LIMBS == 16

\* a U256 is thirty-two base-256 limbs, least significant first
U256_LIMBS == 32

\* the u128 whose big-endian bytes are be
u128_from_be_bytes(be) ==
    [i \in 1 .. U128_LIMBS |-> IF i <= Len(be) THEN be[Len(be) + 1 - i] ELSE 0]

\* u128::MAX
U128_MAX == [i \in 1 .. U128_LIMBS |-> 255]

\* U256::from(a) for a u128 a
U256_from(a) == a \o [i \in 1 .. U256_LIMBS - U128_LIMBS |-> 0]

\* a >= b for two limb sequences of the same length, compared from limb i down
RECURSIVE limbs_geq(_, _, _)
limbs_geq(a, b, i) ==
    IF i = 0 THEN TRUE
    ELSE IF a[i] # b[i] THEN a[i] > b[i]
    ELSE limbs_geq(a, b, i - 1)

\* the limbs of cols from position k on, each reduced below 256 with the
\* excess carried into the next one
RECURSIVE carry_limbs(_, _, _)
carry_limbs(cols, k, carry) ==
    IF k > Len(cols) THEN <<>>
    ELSE <<(cols[k] + carry) % 256>>
            \o carry_limbs(cols, k + 1, (cols[k] + carry) \div 256)

\* the sum of a[j] * b[k + 1 - j] over the limbs j >= i of a
RECURSIVE column_sum(_, _, _, _)
column_sum(a, b, k, i) ==
    IF i > Len(a) \/ i > k THEN 0
    ELSE (IF k + 1 - i <= Len(b) THEN a[i] * b[k + 1 - i] ELSE 0)
            + column_sum(a, b, k, i + 1)

\* U256 * U256, for factors that came from u128 values
U256_mul(a, b) ==
    carry_limbs([k \in 1 .. U256_LIMBS |-> column_sum(a, b, k, 1)], 1, 0)

\* U256 >> 64
U256_shr64(p) == SubSeq(p, 9, U256_LIMBS) \o <<0, 0, 0, 0, 0, 0, 0, 0>>

\* U256::as_u128
as_u128(p) == SubSeq(p, 1, U128_LIMBS)

\* a - b limb by limb from position k on, for a >= b
RECURSIVE borrow_limbs(_, _, _, _)
borrow_limbs(a, b, k, borrow) ==
    IF k > Len(a) THEN <<>>
    ELSE <<(a[k] - b[k] - borrow + 256) % 256>>
            \o borrow_limbs(a, b, k + 1,
                            IF a[k] - b[k] - borrow < 0 THEN 1 ELSE 0)

\* the limbs of d times the small number q, one limb longer than d
small_mul(d, q) ==
    carry_limbs([i \in 1 .. Len(d) + 1 |->
                    IF i <= Len(d) THEN q * d[i] ELSE 0], 1, 0)

\* the largest digit q + x, with x below 2^(b+1), whose product with d is
\* at most cur
RECURSIVE quotient_digit(_, _, _, _)
quotient_digit(cur, d, q, b) ==
    IF b < 0 THEN q
    ELSE IF limbs_geq(cur, small_mul(d, q + Pow2(b)), Len(cur))
    THEN quotient_digit(cur, d, q + Pow2(b), b - 1)
    ELSE quotient_digit(cur, d, q, b - 1)

\* the quotient limbs of n / d from limb number k down to limb 1, most
\* significant first; rem is the remainder carried in from the higher limbs
RECURSIVE long_division(_, _, _, _)
long_division(n, d, k, rem) ==
    IF k = 0 THEN <<>>
    ELSE LET cur == <<n[k]>> \o rem
             q == quotient_digit(cur, d, 0, 7)
             left == borrow_limbs(cur, small_mul(d, q), 1, 0)
         IN  <<q>> \o long_division(n, d, k - 1, SubSeq(left, 1, Len(d)))

\* U256::from(n) / U256::from(d) for u128 values n and d # 0, as a u128
U256_div(n, d) ==
    LET limbs == long_division(n, d, U128_LIMBS,
                               [i \in 1 .. U128_LIMBS |-> 0])
    IN  [i \in 1 .. U128_LIMBS |-> limbs[U128_LIMBS + 1 - i]]

\* multiply_q64: the Q64.64 product of two Q64.64 values
multiply_q64(a, b) ==
    LET shifted == U256_shr64(U256_mul(U256_from(a), U256_from(b)))
    IN  IF \E i \in U128_LIMBS + 1 .. U256_LIMBS : shifted[i] # 0
        THEN [ok |-> FALSE, err |-> "MathError"]
        ELSE [ok |-> TRUE, value |-> as_u128(shifted)]

\* 1u128 << 64
ONE_Q64 == u128_from_be_bytes(<<1, 0, 0, 0, 0, 0, 0, 0, 0>>)

\* the factor get_sqrt_ratio_at_tick multiplies by for bit number k of
\* abs_tick: FN1 for bit 0, FN2 for bit 1, up to FN262144 for bit 18
FN(k) ==
    <<
      \* FN1 = 0xFFFCB933BD6FAD37
      u128_from_be_bytes(<<255, 252, 185, 51, 189, 111, 173, 55>>),
      \* FN2 = 0xFFF97272373D413C
      u128_from_be_bytes(<<255, 249, 114, 114, 55, 61, 65, 60>>),
      \* FN4 = 0xFFF2E50F5F656932
      u128_from_be_bytes(<<255, 242, 229, 15, 95, 101, 105, 50>>),
      \* FN8 = 0xFFE5CACA7E10E4E6
      u128_from_be_bytes(<<255, 229, 202, 202, 126, 16, 228, 230>>),
      \* FN16 = 0xFFCB9843D60F6159
      u128_from_be_bytes(<<255, 203, 152, 67, 214, 15, 97, 89>>),
      \* FN32 = 0xFF973B41FA98C081
      u128_from_be_bytes(<<255, 151, 59, 65, 250, 152, 192, 129>>),
      \* FN64 = 0xFF2EA16466C96A39
      u128_from_be_bytes(<<255, 46, 161, 100, 102, 201, 106, 57>>),
      \* FN128 = 0xFE5DEE046A99A2A8
      u128_from_be_bytes(<<254, 93, 238, 4, 106, 153, 162, 168>>),
      \* FN256 = 0xFCBE86C7900A88AE
      u128_from_be_bytes(<<252, 190, 134, 199, 144, 10, 136, 174>>),
      \* FN512 = 0xF987A7253AC41317
      u128_from_be_bytes(<<249, 135, 167, 37, 58, 196, 19, 23>>),
      \* FN1024 = 0xF3392B0822B70005
      u128_from_be_bytes(<<243, 57, 43, 8, 34, 183, 0, 5>>),
      \* FN2048 = 0xE7159475A2C29B74
      u128_from_be_bytes(<<231, 21, 148, 117, 162, 194, 155, 116>>),
      \* FN4096 = 0xD097F3BDFD2022B8
      u128_from_be_bytes(<<208, 151, 243, 189, 253, 32, 34, 184>>),
      \* FN8192 = 0xA9F746462D870FDF
      u128_from_be_bytes(<<169, 247, 70, 70, 45, 135, 15, 223>>),
      \* FN16384 = 0x70D869A156D2A1B8
      u128_from_be_bytes(<<112, 216, 105, 161, 86, 210, 161, 184>>),
      \* FN32768 = 0x31BE135F97D08FD9
      u128_from_be_bytes(<<49, 190, 19, 95, 151, 208, 143, 217>>),
      \* FN65536 = 0x9AA508B5B7A84E1C
      u128_from_be_bytes(<<154, 165, 8, 181, 183, 168, 78, 28>>),
      \* FN131072 = 0x5D6AF8DEDB81196D
      u128_from_be_bytes(<<93, 106, 248, 222, 219, 129, 25, 109>>),
      \* FN262144 = 0x2216E584F5FA1EA9
      u128_from_be_bytes(<<34, 22, 229, 132, 245, 250, 30, 169>>)
    >>[k + 1]

\* 4_295_048_016 = 0x100013B50
MIN_SQRT_PRICE_X64 == u128_from_be_bytes(<<1, 0, 1, 59, 80>>)

\* 79_226_673_521_066_979_257_578_248_091 = 0xFFFEC4B1845C1AA94E69579B
MAX_SQRT_PRICE_X64 == u128_from_be_bytes(<<255, 254, 196, 177, 132, 92, 26, 169, 78, 105, 87, 155>>)

\* the highest bit number of abs_tick that get_sqrt_ratio_at_tick tests
LAST_TICK_BIT == 18

\* tick.abs() as u32
abs_tick(tick) == IF tick < 0 THEN -tick ELSE tick

\* abs_tick & (1 << k) != 0
tick_bit_set(tick, k) == (abs_tick(tick) \div Pow2(k)) % 2 = 1

\* a u128 a lies in [MIN_SQRT_PRICE_X64, MAX_SQRT_PRICE_X64]
in_sqrt_price_bounds(a) ==
    /\ limbs_geq(a, MIN_SQRT_PRICE_X64, U128_LIMBS)
    /\ limbs_geq(MAX_SQRT_PRICE_X64, a, U128_LIMBS)

\* a variant of boundary_sqrt_price that has no precomputed value
boundary_sqrt_price_none(tick) == <<>>

\* get_sqrt_ratio_at_tick: the precomputed value of a boundary tick
boundary_sqrt_price(tick) ==
    IF tick = MIN_TICK THEN <<MIN_SQRT_PRICE_X64>>
    ELSE IF tick = MAX_TICK THEN <<MAX_SQRT_PRICE_X64>>
    ELSE <<>>

\* get_sqrt_ratio_at_tick up to the first factor: the bounds check, the
\* boundary ticks, and the ratio chosen by the lowest bit of abs_tick
sqrt_ratio_start(c) ==
    IF ~(c.tick >= -MAX_TICK /\ c.tick <= MAX_TICK)
    THEN [c EXCEPT !.pc = "done", !.result = "TickOutOfBounds"]
    ELSE IF boundary_sqrt_price(c.tick) # <<>>
    THEN [c EXCEPT !.pc = "done", !.result = "Ok",
                   !.ratio = boundary_sqrt_price(c.tick)[1]]
    ELSE [c EXCEPT !.pc = "bits", !.bit = 1,
                   !.ratio = IF tick_bit_set(c.tick, 0) THEN FN(0) ELSE ONE_Q64]

\* get_sqrt_ratio_at_tick for bit number c.bit of abs_tick
sqrt_ratio_step(c) ==
    LET product == multiply_q64(c.ratio, FN(c.bit))
        next == IF c.bit = LAST_TICK_BIT
                THEN [c EXCEPT !.pc = "reciprocal"]
                ELSE [c EXCEPT !.bit = c.bit + 1]
    IN  IF ~tick_bit_set(c.tick, c.bit) THEN next
        ELSE IF ~product.ok
        THEN [c EXCEPT !.pc = "done", !.result = product.err]
        ELSE [next EXCEPT !.ratio = product.value]

\* get_sqrt_ratio_at_tick after the last factor: the reciprocal for a
\* positive tick, then the range check on the result
sqrt_ratio_finish(c) ==
    LET zero == [i \in 1 .. U128_LIMBS |-> 0]
        ratio == IF c.tick > 0 THEN U256_div(U128_MAX, c.ratio) ELSE c.ratio
    IN  IF c.tick > 0 /\ c.ratio = zero
        THEN [c EXCEPT !.pc = "done", !.result = "DivideByZeroPanic"]
        ELSE IF ~in_sqrt_price_bounds(ratio)
        THEN [c EXCEPT !.pc = "done", !.result = "MathError", !.ratio = ratio]
        ELSE [c EXCEPT !.pc = "done", !.result = "Ok", !.ratio = ratio]

\* the ticks the function is called with: zero, every power of two the
\* decomposition tests and the boundary ticks, of both signs, each with the
\* ticks within TickSpan of it, and the first ticks outside the valid range
TickSamples ==
    LET near == {0} \cup {Pow2(k) + d : k \in 0 .. LAST_TICK_BIT,
                                        d \in -TickSpan .. TickSpan}
                    \cup {MAX_TICK - d : d \in -1 .. TickSpan}
    IN  {t : t \in near} \cup {-t : t \in near}

TickCall(tick) ==
    [op |-> "get_sqrt_ratio_at_tick", tick |-> tick, pc |-> "start",
     bit |-> 0, ratio |-> [i \in 1 .. U128_LIMBS |-> 0], result |-> "none"]

InitTick ==
    /\ chunk = EmptyChunk
    /\ pushed = <<>>
    /\ oracle_state = OracleZeroed
    /\ governance_state = GovernanceZeroed
    /\ chunks = [i \in 0 .. 2 |-> EmptyChunk]
    /\ clock = 1
    /\ stored = <<>>
    /\ call \in {TickCall(tick) : tick \in TickSamples}

TickRest ==
    UNCHANGED <<chunk, pushed, oracle_state, governance_state, chunks,
                clock, stored>>

SqrtRatioStart ==
    /\ call.op = "get_sqrt_ratio_at_tick"
    /\ call.pc = "start"
    /\ \E c \in {sqrt_ratio_start(call)} : call' = c
    /\ TickRest

SqrtRatioStep ==
    /\ call.op = "get_sqrt_ratio_at_tick"
    /\ call.pc = "bits"
    /\ \E c \in {sqrt_ratio_step(call)} : call' = c
    /\ TickRest

SqrtRatioFinish ==
    /\ call.op = "get_sqrt_ratio_at_tick"
    /\ call.pc = "reciprocal"
    /\ \E c \in {sqrt_ratio_finish(call)} : call' = c
    /\ TickRest

NextTick == SqrtRatioStart \/ SqrtRatioStep \/ SqrtRatioFinish

SpecTick == InitTick /\ [][NextTick]_vars

\* C30: for every tick in [MIN_TICK, MAX_TICK], get_sqrt_ratio_at_tick
\* returns a value within [MIN_SQRT_PRICE_X64, MAX_SQRT_PRICE_X64], and
\* the ticks MIN_TICK and MAX_TICK return exactly MIN_SQRT_PRICE_X64 and
\* MAX_SQRT_PRICE_X64
C30_SqrtPriceWithinBounds ==
    (/\ call.op = "get_sqrt_ratio_at_tick"
     /\ call.pc = "done"
     /\ call.tick \in MIN_TICK .. MAX_TICK) =>
        /\ call.result = "Ok"
        /\ in_sqrt_price_bounds(call.ratio)
        /\ call.tick = MIN_TICK => call.ratio = MIN_SQRT_PRICE_X64
        /\ call.tick = MAX_TICK => call.ratio = MAX_SQRT_PRICE_X64

\* a positive tick next to the upper boundary went through the factors of
\* the three highest bits and the reciprocal and returned a value above 1.0
C30_Witness ==
    /\ call.op = "get_sqrt_ratio_at_tick"
    /\ call.pc = "done"
    /\ call.tick = MAX_TICK - 1
    /\ call.result = "Ok"
    /\ call.ratio # MAX_SQRT_PRICE_X64
    /\ limbs_geq(call.ratio, ONE_Q64, U128_LIMBS)

(***************************************************************************)
(* The segment before the first retained sample (SpecTwap)                 *)
(***************************************************************************)
\* the position in the visit of the first sample the aggregator retains:
\* the first valid one that is not before the cutoff
FirstRetained ==
    LET ks == {k \in 1 .. Len(TwapWalk) :
                /\ valid_point(TwapWalk[k])
                /\ TwapWalk[k].timestamp >= TwapCutoff}
    IN  IF ks = {} THEN <<>> ELSE <<SetMin(ks)>>

\* the position in the visit of the last valid sample before position k
PrecedingSample(k) ==
    LET js == {j \in 1 .. k - 1 : valid_point(TwapWalk[j])}
    IN  IF js = {} THEN <<>>
        ELSE <<CHOOSE j \in js : \A i \in js : i <= j>>

\* the first retained sample lies strictly after the cutoff and a valid
\* sample precedes it in the visit
FirstRetainedAfterCutoff ==
    /\ FirstRetained # <<>>
    /\ TwapWalk[FirstRetained[1]].timestamp > TwapCutoff
    /\ PrecedingSample(FirstRetained[1]) # <<>>

\* C31: when the first retained sample lies strictly after the cutoff, the
\* interval from the cutoff to that sample is weighted with the price and
\* confidence of the sample that preceded the cutoff
C31_BackfillUsesPrecedingSample ==
    (call.op = "update_price_twap" /\ FirstRetainedAfterCutoff) =>
        LET k == FirstRetained[1]
            before == TwapWalk[PrecedingSample(k)[1]]
        IN  TwapSums(AccAfter(k)) =
                TwapSums(add_segment(AccInit, before,
                                     TwapWalk[k].timestamp - TwapCutoff))

(***************************************************************************)
(* Degenerate segments of the T2EMA walk (SpecWalk)                        *)
(***************************************************************************)
\* the segment the walk w is about to read has an endpoint with a zero
\* timestamp or has zero duration
DegenerateSegment(w) ==
    LET timestamp_i == obs_timestamp(w.ring, w.i)
        timestamp_j == obs_timestamp(w.ring, (w.i + 1) % OBSERVATION_NUM)
    IN  timestamp_i = 0 \/ timestamp_j = 0 \/ timestamp_j - timestamp_i = 0

\* C32: in the T2EMA walk a segment with zero duration or with a
\* zero-timestamp endpoint contributes no sample and is stepped over: the
\* walk moves to the segment's end and, unless that is index_now, goes on
\* with the following segments
C32_DegenerateSegmentSkipped ==
    [][(/\ call.op = "t2ema_tick"
        /\ call.pc = "loop"
        /\ ~walk_capped(call.iterations)
        /\ DegenerateSegment(call)) =>
            /\ call'.samples = call.samples
            /\ call'.i = (call.i + 1) % OBSERVATION_NUM
            /\ call'.i # call.index_now => call'.pc = "loop"]_vars

(***************************************************************************)
(* SpecSpot: the TWAP tick of fetch_raydium_price_from_observations, from  *)
(* the window that find_observation_for_window returned to the deviation   *)
(* checks                                                                  *)
(***************************************************************************)
\* i64 division, which truncates toward zero
i64_div(a, b) ==
    IF (a >= 0) = (b >= 0) THEN abs_diff(a, 0) \div abs_diff(b, 0)
    ELSE 0 - (abs_diff(a, 0) \div abs_diff(b, 0))

\* twap_tick_from_cumulatives (the cumulatives of the model are far from
\* the i64 limits, so the wrapping subtraction is the plain one)
twap_tick_from_cumulatives(tick_cumulative_then, tick_cumulative_now, seconds_elapsed) ==
    LET delta == tick_cumulative_now - tick_cumulative_then
        tick == i64_div(delta, seconds_elapsed)
    IN  IF seconds_elapsed = 0 THEN [ok |-> TRUE, value |-> 0]
        ELSE IF ~(tick >= MIN_TICK /\ tick <= MAX_TICK)
        THEN [ok |-> FALSE, err |-> "TickOutOfBounds"]
        ELSE [ok |-> TRUE, value |-> tick]

\* the tick_cumulative values of the observations of the model
SpotCumulatives == (0 - 2 * MaxTick) .. (2 * MaxTick)

\* the windows find_observation_for_window returns: the degraded window
\* (index_now, index_now, 1) over one observation, or two different
\* observations a positive number of seconds apart
SpotWindows ==
    {[index_then |-> 1, index_now |-> 1, seconds_elapsed |-> 1,
      cumulative_then |-> c, cumulative_now |-> c] : c \in SpotCumulatives}
        \cup {[index_then |-> 0, index_now |-> 1, seconds_elapsed |-> e,
               cumulative_then |-> 0, cumulative_now |-> c] :
                    e \in 1 .. MaxTick, c \in SpotCumulatives}

\* the window has been found; the T2EMA tick is the one the walk will return
InitSpot ==
    /\ chunk = EmptyChunk
    /\ pushed = <<>>
    /\ oracle_state = OracleZeroed
    /\ governance_state = GovernanceZeroed
    /\ chunks = [i \in 0 .. 2 |-> EmptyChunk]
    /\ clock = 1
    /\ stored = <<>>
    /\ call \in {[op |-> "find_observation_for_window", result |-> "Ok",
                  window |-> w, t2ema_tick |-> te, tick_current |-> tc,
                  max_tick_deviation |-> d] :
                    w \in SpotWindows, te \in {0, MaxTick}, tc \in Ticks,
                    d \in {0, MaxTick}}

\* phases 3 to 5 of fetch_raydium_price_from_observations: the TWAP tick
\* from the two cumulatives, the fallback, then the deviation checks
FetchTicks ==
    /\ call.op = "find_observation_for_window"
    /\ \E computed \in {twap_tick_from_cumulatives(call.window.cumulative_then,
                                                   call.window.cumulative_now,
                                                   call.window.seconds_elapsed)} :
        IF ~computed.ok
        THEN call' = [call EXCEPT !.op = "fetch_price", !.result = computed.err]
        ELSE \E out \in {fetch_cross_validate(computed.value, call.t2ema_tick,
                                              call.tick_current,
                                              call.max_tick_deviation)} :
                call' = [call EXCEPT !.op = "fetch_price",
                                     !.result = IF out.ok THEN "Ok" ELSE out.err]
                            @@ [computed |-> computed.value,
                                twap_tick |-> spot_fallback(computed.value,
                                                            call.tick_current)]
    /\ UNCHANGED <<chunk, pushed, oracle_state, governance_state, chunks,
                   clock, stored>>

NextSpot == FetchTicks

SpecSpot == InitSpot /\ [][NextSpot]_vars

\* C33: fetch_price replaces the TWAP tick by the pool's current tick only
\* when the window collapsed to zero elapsed time (index_then = index_now);
\* a TWAP tick computed over a positive elapsed time is used as computed
C33_SpotTickOnlyForCollapsedWindow ==
    (/\ call.op = "fetch_price"
     /\ call.result # "TickOutOfBounds"
     /\ call.window.index_then # call.window.index_now) =>
        call.twap_tick = call.computed

(***************************************************************************)
(* Required masks of several bits (SpecGov)                                *)
(***************************************************************************)
\* C34: check_member_permission with a required mask of several bits
\* succeeds only if the member holds every bit of the mask; a member that
\* holds only some of them gets InsufficientPermissions
C34_MultiBitMaskNeedsEveryBit ==
    (/\ call.op = "check_member_permission"
     /\ call.member_key # DefaultPubkey
     /\ Cardinality(call.required_permission) > 1
     /\ ActiveSlotsOf(governance_state, call.member_key) # {}) =>
        LET holders == ActiveSlotsOf(governance_state, call.member_key)
            holds_all == \E i \in holders :
                            call.required_permission
                                \subseteq governance_state.member_permissions[i]
        IN  call.result = IF holds_all THEN "Ok" ELSE "InsufficientPermissions"

(***************************************************************************)
(* Eviction order across the chunks (Spec)                                 *)
(***************************************************************************)
\* the samples held in the three chunks
HeldSamples == {ChainView[k] : k \in 1 .. Len(ChainView)}

\* C35: after any sequence of successful update_price calls the chunks hold
\* the most recently stored samples: no stored sample is missing from the
\* chunks while a sample stored before it is still held
C35_OldestSampleEvictedFirst ==
    \A i, j \in 1 .. Len(stored) :
        (/\ i < j
         /\ stored[i] \in HeldSamples
         /\ \A k \in j .. Len(stored) : stored[k] # stored[i])
            => stored[j] \in HeldSamples

(***************************************************************************)
(* Range of the TWAP price (SpecTwap)                                      *)
(***************************************************************************)
\* the prices of the valid samples at or after the cutoff
WindowPrices ==
    {TwapWalk[k].price : k \in {j \in 1 .. Len(TwapWalk) :
                                    /\ valid_point(TwapWalk[j])
                                    /\ TwapWalk[j].timestamp >= TwapCutoff}}

\* C36: without a saturation fallback, the TWAP price the aggregator
\* returns lies between the smallest and the largest price of the valid
\* samples inside the window, shrunk or not; when all those samples have
\* one price the result is that price
C36_TwapWithinSampleRange ==
    (call.op = "update_price_twap" /\ ~AllChunksEmpty /\ call.out.ok) =>
        /\ WindowPrices # {}
        /\ \E lo, hi \in WindowPrices :
            /\ lo <= call.out.twap_price
            /\ call.out.twap_price <= hi

\* the window holds samples at two prices with different confidences and
\* the result lies strictly between the two
C36_Witness ==
    /\ call.op = "update_price_twap"
    /\ ~AllChunksEmpty
    /\ call.out.ok
    /\ Cardinality(WindowPrices) = 2
    /\ \A p \in WindowPrices : call.out.twap_price # p

(***************************************************************************)
(* SpecPath: the window search on rings as the pool writes them, followed  *)
(* by the walks over the window it returned                                *)
(***************************************************************************)
\* fetch_raydium_price_from_observations hands the indices of the window to
\* t2ema_tick and to confidence_from_variance
StartWalk ==
    /\ call.op = "find_observation_for_window"
    /\ call.pc = "done"
    /\ call.result = "Ok"
    /\ call.out # <<>>
    /\ \E op \in {"t2ema_tick", "confidence_from_variance"} :
            call' = WalkCall(op, call.ring, call.out[1].index_then,
                             call.out[1].index_now, 5000)
    /\ UNCHANGED <<chunk, pushed, oracle_state, governance_state, chunks,
                   clock, stored>>

NextPath ==
    \/ WindowStart
    \/ WindowStep
    \/ StartWalk
    \/ T2emaStart
    \/ T2emaStep
    \/ VarianceStep

SpecPath == InitWindow /\ [][NextPath]_vars

\* the start indices of the adjacent pairs on the forward path from
\* index_then to index_now; none when the two are equal
PathSegments(index_then, index_now) ==
    {(index_then + k) % OBSERVATION_NUM :
        k \in 0 .. ((index_now + OBSERVATION_NUM - index_then) % OBSERVATION_NUM) - 1}

NumPools == 2

RAYDIUM_CLMM_PROGRAM_ID_MAINNET == "CAMMCzo5YL8w4VFF8KVHrK22GGUsp5VTaW7grrKgrWqK"

RAYDIUM_CLMM_PROGRAM_ID_DEVNET == "DRayAUgENGQBKVaX8owNhgzkEDyoHTGVEGHVJT1E9pfH"

\* an owner that is neither deployment of the pool program
SYSTEM_PROGRAM_ID == "11111111111111111111111111111111"

ProgramIds ==
    <<RAYDIUM_CLMM_PROGRAM_ID_MAINNET, RAYDIUM_CLMM_PROGRAM_ID_DEVNET,
      SYSTEM_PROGRAM_ID>>

PoolKeys == 1 .. NumPools

\* Pubkey::find_program_address over the seeds "observation" and the pool
\* key: a hash of the seeds and the program id, so different pools and
\* different programs give different addresses, none of them a pool key
find_program_address(pool_key, program_id) ==
    LET p == CHOOSE k \in 1 .. Len(ProgramIds) : ProgramIds[k] = program_id
    IN  NumPools + (pool_key - 1) * Len(ProgramIds) + p

ObservationKeys ==
    {find_program_address(k, ProgramIds[p]) :
        k \in PoolKeys, p \in 1 .. Len(ProgramIds)}

\* update_price selects the program id from the caller's network flag
raydium_program_id(use_mainnet) ==
    IF use_mainnet THEN RAYDIUM_CLMM_PROGRAM_ID_MAINNET
    ELSE RAYDIUM_CLMM_PROGRAM_ID_DEVNET

\* read_pool: the owner check, then the size check of PoolReader::new_ptr
read_pool(pool_account_info, program_id) ==
    IF pool_account_info.owner # program_id THEN "InvalidOwner"
    ELSE IF ~pool_account_info.large_enough THEN "TooSmall"
    ELSE "Ok"

\* the address derived by verify_observation_pda_and_read_pool under the
\* given program id
derived_observation_address_under(pool_account_info, program_id) ==
    find_program_address(pool_account_info.key, program_id)

\* the address verify_observation_pda_and_read_pool derives: always under
\* the devnet program id
derived_observation_address(pool_account_info, program_id) ==
    find_program_address(pool_account_info.key, RAYDIUM_CLMM_PROGRAM_ID_DEVNET)

verify_observation_pda_and_read_pool(pool_account_info, observation_account_info, program_id) ==
    IF derived_observation_address(pool_account_info, program_id)
            # observation_account_info.key
    THEN "BadPda"
    ELSE IF read_pool(pool_account_info, program_id) # "Ok"
    THEN read_pool(pool_account_info, program_id)
    ELSE IF pool_account_info.observation_key # observation_account_info.key
    THEN "PoolMismatch"
    ELSE "Ok"

\* read_observation: owner, size, then the initialized flag
read_observation(observation_account_info, program_id) ==
    IF observation_account_info.owner # program_id THEN "InvalidOwner"
    ELSE IF ~observation_account_info.large_enough THEN "TooSmall"
    ELSE IF ~observation_account_info.initialized THEN "Uninitialized"
    ELSE "Ok"

PoolAccounts ==
    [key : PoolKeys, owner : {ProgramIds[p] : p \in 1 .. Len(ProgramIds)},
     large_enough : BOOLEAN, observation_key : ObservationKeys]

ObservationAccounts ==
    [key : ObservationKeys,
     owner : {ProgramIds[p] : p \in 1 .. Len(ProgramIds)},
     large_enough : BOOLEAN, initialized : BOOLEAN]

InitAccounts ==
    /\ WalkRest
    /\ \E pool \in PoolAccounts, observation \in ObservationAccounts,
          use_mainnet \in BOOLEAN :
            call = [op |-> "fetch_raydium_price_from_observations",
                    pc |-> "start", result |-> "Ok",
                    pool_account_info |-> pool,
                    observation_account_info |-> observation,
                    use_mainnet |-> use_mainnet,
                    program_id |-> raydium_program_id(use_mainnet)]

AccountsRest ==
    UNCHANGED <<chunk, pushed, oracle_state, governance_state, chunks, clock,
                stored>>

\* phase 1, first call: the derivation check, the pool's owner and size,
\* the cross reference
VerifyObservationPdaAndReadPool ==
    /\ call.op = "fetch_raydium_price_from_observations"
    /\ call.pc = "start"
    /\ \E r \in {verify_observation_pda_and_read_pool(call.pool_account_info,
                    call.observation_account_info, call.program_id)} :
            call' = [call EXCEPT !.result = r,
                        !.pc = IF r = "Ok" THEN "pool_read" ELSE "done"]
    /\ AccountsRest

\* phase 1, second call: the observation account
ReadObservation ==
    /\ call.op = "fetch_raydium_price_from_observations"
    /\ call.pc = "pool_read"
    /\ \E r \in {read_observation(call.observation_account_info,
                                  call.program_id)} :
            call' = [call EXCEPT !.result = r, !.pc = "done"]
    /\ AccountsRest

NextAccounts ==
    \/ VerifyObservationPdaAndReadPool
    \/ ReadObservation

SpecAccounts == InitAccounts /\ [][NextAccounts]_vars

\* C38: a pool and observation pair owned by the program the network flag
\* selects, whose observation address is the address derived under that
\* program (and which is otherwise in order: large enough, cross-referenced,
\* initialized), passes account validation
C38_SelectedProgramPairPasses ==
    ( /\ call.op = "fetch_raydium_price_from_observations"
      /\ call.pc = "done"
      /\ call.pool_account_info.owner = call.program_id
      /\ call.observation_account_info.owner = call.program_id
      /\ call.observation_account_info.key =
            derived_observation_address_under(call.pool_account_info,
                                              call.program_id)
      /\ call.pool_account_info.observation_key =
            call.observation_account_info.key
      /\ call.pool_account_info.large_enough
      /\ call.observation_account_info.large_enough
      /\ call.observation_account_info.initialized )
    => call.result = "Ok"

(***************************************************************************)
(* The aggregator's derived tail against the chunk's stored tail           *)
(***************************************************************************)
\* C39: in every chunk reached by pushes from the empty chunk the tail
\* index the aggregator derives, (head + capacity - count) mod capacity, is
\* the stored tail, and the aggregator's traversal of the chunk is the
\* chunk's forward FIFO view
C39_DerivedTailIsStoredTail ==
    /\ tail_index(chunk) = chunk.tail
    /\ walk_points(chunk) = collect_fifo_view(chunk)

\* a full chunk that has evicted: the tail has left slot 0 and the
\* traversal starts at the oldest surviving point
C39_Witness ==
    /\ Len(pushed) > BUFFER_SIZE
    /\ chunk.count = BUFFER_SIZE
    /\ chunk.tail # 0
    /\ tail_index(chunk) = chunk.tail
    /\ walk_points(chunk)[1] = pushed[Len(pushed) - BUFFER_SIZE + 1]

====
